---- MODULE Spec2Model ----
(***************************************************************************)
(* Model of the school attendance backend (Express handlers over a         *)
(* PostgreSQL pool): the teacher controller's handlers, the tables of      *)
(* database.sql and the transactions the handlers run on a pool client.    *)
(*                                                                         *)
(* Encoding of JavaScript / SQL values:                                    *)
(*   - a string field that is absent from the request is the empty string  *)
(*     (both are falsy for the handlers' `!x` checks);                     *)
(*   - a numeric field that is absent is 0 (falsy as well); SERIAL ids     *)
(*     start at 1, so 0 also stands for an undefined / NULL student_id;    *)
(*   - a date is the tuple <<year, month, day>>, an absent date is <<>>;   *)
(*   - a student_id_code is the sequence of its characters, NULL is <<>>;  *)
(*   - the attendance table is a bag of rows (the SERIAL id column only    *)
(*     tells copies apart, COUNT(a.id) is the number of copies).           *)
(***************************************************************************)
EXTENDS Integers, Sequences, FiniteSets, Bags, TLC

VARIABLES
    users,        \* table users: rows [id, email, password_hash, role]
    students,     \* table students: rows [id, user_id, name, class_name, roll_no, student_id_code]
    teachers,     \* table teachers: rows [id, user_id, name, subject]
    attendance,   \* table attendance: bag of rows [student_id, date, status]
    studentSeq,   \* last value handed out by the students.id SERIAL sequence
    checkedOut,   \* pool clients currently checked out
    tx,           \* per request: the transaction open on its client and its uncommitted writes
    pc,           \* per request: the await the handler is suspended at
    req,          \* per request: endpoint and inputs
    loc,          \* per request: the handler's local variables
    resp,         \* per request: responses sent so far (count, status, body)
    io,           \* per request: pool acquisitions and statements executed so far
    pre,          \* per request: the committed tables when the handler was entered
    calls,        \* requests served so far
    headers,      \* per request: the credential of its Authorization header
    localStorage, \* browser: the entries 'token' and 'user'
    authUser,     \* AuthContext: the user state of AuthProvider
    view,         \* TeacherDashboard: activeTab, date, selectedClass, students
    inflight,     \* client: the api calls awaiting their response
    wire,         \* the last request that left through the axios instance
    loggedOut     \* logout() was called and no login has succeeded since

servervars == <<users, students, teachers, attendance, studentSeq, checkedOut,
                tx, pc, req, loc, resp, io, pre, calls, headers>>

clientvars == <<localStorage, authUser, view, inflight, wire, loggedOut>>

vars == <<servervars, clientvars>>

dbvars == <<users, students, teachers, attendance, studentSeq>>

----------------------------------------------------------------------------
(* Bounds of the model *)

MaxCalls == 2      \* requests per behaviour
MaxBatch == 2      \* entries per markAttendanceBulk batch
MaxInFlight == 2   \* api calls of the client awaiting a response

(* Program constants *)

PoolMax == 10      \* db.js: max clients in the pool
PadWidth == 3      \* createStudent: padStart(3, '0')

Procs == {1, 2}    \* request slots (concurrent handlers)

AdminEmail == "admin@school.com"
Emails == {"a@school.com", "b@school.com", "c@school.com"}
ClassNames == {"10-A", "10-B"}
Rolls == {1, 2}
NoDate == <<>>
Dates == {<<2026, 2, 13>>, <<2026, 3, 2>>}
Statuses == {"PRESENT", "ABSENT", "HOLIDAY"}     \* attendance_status ENUM
Roles == {"STUDENT", "TEACHER"}                  \* user_role ENUM
NullId == 0
NoCode == <<>>
Threshold == 75    \* getLowAttendanceList: HAVING ... < 75
Today == <<2026, 2, 13>>   \* new Date().toISOString().split('T')[0]

----------------------------------------------------------------------------
(* Pure helpers *)

Max(S) == CHOOSE x \in S : \A y \in S : y <= x

DigitChar(d) == CASE d = 0 -> "0" [] d = 1 -> "1" [] d = 2 -> "2" [] d = 3 -> "3"
                  [] d = 4 -> "4" [] d = 5 -> "5" [] d = 6 -> "6" [] d = 7 -> "7"
                  [] d = 8 -> "8" [] d = 9 -> "9"

RECURSIVE StringOf(_)
\* String(nextId): the decimal digits of a non-negative integer
StringOf(n) == IF n < 10 THEN <<DigitChar(n)>>
               ELSE StringOf(n \div 10) \o <<DigitChar(n % 10)>>

RECURSIVE padStart(_, _, _)
\* String.prototype.padStart(width, fill) for a one-character fill
padStart(s, width, fill) == IF Len(s) >= width THEN s
                            ELSE padStart(<<fill>> \o s, width, fill)

\* `STD${String(nextId).padStart(3, '0')}`
StudentIdCode(nextId) == <<"S", "T", "D">> \o padStart(StringOf(nextId), PadWidth, "0")

\* bcrypt.hash(password, salt): one-way, modelled as a tagged value
Hash(password) == <<"bcrypt", password>>

\* JavaScript `!x` for the encoded request fields: string, number, date
FalsyStr(x) == x = ""
FalsyNum(x) == x = 0
FalsyDate(x) == x = NoDate

----------------------------------------------------------------------------
(* Storage: statements of the handlers as functions of the tables *)

EmptyTx == [open |-> FALSE, users |-> {}, students |-> {}, att |-> <<>>]

\* BEGIN sent on another connection than the statements: they autocommit
BeginTxElsewhere(t) == t

\* client.query('BEGIN')
BeginTx(t) == [t EXCEPT !.open = TRUE]

\* client.query('ROLLBACK'): the uncommitted writes are discarded
RollbackTx(t) == EmptyTx

\* READ COMMITTED: a statement sees the committed rows and its own transaction's writes
VisibleUsers(p) == users \cup tx[p].users
VisibleStudents(p) == students \cup tx[p].students

\* SELECT * FROM users WHERE email = $1
SelectUsersByEmail(tbl, email) == {u \in tbl : u.email = email}

\* a roll pre-check that never finds a row
SelectStudentsByRollNoMatch(tbl, class_name, roll_no) == {s \in tbl : FALSE}

\* SELECT * FROM students WHERE class_name = $1 AND roll_no = $2
SelectStudentsByRoll(tbl, class_name, roll_no) ==
    {s \in tbl : s.class_name = class_name /\ s.roll_no = roll_no}

\* users.email UNIQUE, users.id PRIMARY KEY
UserInsertViolates(tbl, row) == \E u \in tbl : u.email = row.email \/ u.id = row.id

\* a students table without UNIQUE on student_id_code
StudentInsertChecksUserOnly(stbl, utbl, row) == \A u \in utbl : u.id # row.user_id

\* students.student_id_code UNIQUE (NULLs are distinct), user_id REFERENCES users(id)
StudentInsertViolates(stbl, utbl, row) ==
    \/ row.student_id_code # NoCode /\ \E s \in stbl : s.student_id_code = row.student_id_code
    \/ \A u \in utbl : u.id # row.user_id

\* a unique-index entry of another transaction that is still uncommitted makes the
\* insert wait until that transaction ends
UserInsertWaits(p, row) ==
    \E q \in Procs \ {p} : tx[q].open /\ \E u \in tx[q].users : u.email = row.email

StudentInsertWaits(p, row) ==
    \E q \in Procs \ {p} : tx[q].open /\ row.student_id_code # NoCode
        /\ \E s \in tx[q].students : s.student_id_code = row.student_id_code

\* INSERT INTO attendance ... : student_id REFERENCES students(id) (NULL passes),
\* status attendance_status NOT NULL
AttendanceInsertViolates(stbl, student_id, status) ==
    \/ student_id # NullId /\ \A s \in stbl : s.id # student_id
    \/ status \notin Statuses

\* a plain INSERT on a table without the unique constraint
UpsertWithoutConflict(tbl, student_id, date, status) ==
    tbl (+) SetToBag({[student_id |-> student_id, date |-> date, status |-> status]})

\* a conflict target of student_id alone: the student's record of any date is rewritten
UpsertIgnoringDate(tbl, student_id, date, status) ==
    LET hit == {r \in BagToSet(tbl) : r.student_id = student_id}
        new == [student_id |-> student_id, date |-> date, status |-> status]
    IN  IF student_id # NullId /\ hit # {}
        THEN LET old == CHOOSE r \in hit : TRUE
             IN  (tbl (-) SetToBag({old})) (+) SetToBag({new})
        ELSE tbl (+) SetToBag({new})

\* ON CONFLICT (student_id, date) DO NOTHING: the stored status stays
UpsertDoNothing(tbl, student_id, date, status) ==
    LET hit == {r \in BagToSet(tbl) : r.student_id = student_id /\ r.date = date}
        new == [student_id |-> student_id, date |-> date, status |-> status]
    IN  IF student_id # NullId /\ hit # {} THEN tbl ELSE tbl (+) SetToBag({new})

\* INSERT ... ON CONFLICT (student_id, date) DO UPDATE SET status = EXCLUDED.status
\* under CONSTRAINT unique_attendance UNIQUE (student_id, date); a NULL student_id
\* never conflicts
Upsert(tbl, student_id, date, status) ==
    LET hit == {r \in BagToSet(tbl) : r.student_id = student_id /\ r.date = date}
        new == [student_id |-> student_id, date |-> date, status |-> status]
    IN  IF student_id # NullId /\ hit # {}
        THEN LET old == CHOOSE r \in hit : TRUE
             IN  (tbl (-) SetToBag({old})) (+) SetToBag({new})
        ELSE tbl (+) SetToBag({new})

RECURSIVE UpsertAll(_, _)
\* the writes of a transaction applied in statement order
UpsertAll(tbl, ws) ==
    IF ws = <<>> THEN tbl
    ELSE UpsertAll(Upsert(tbl, Head(ws).student_id, Head(ws).date, Head(ws).status), Tail(ws))

\* the row lock / index entry of another open transaction on (student_id, date)
UpsertWaits(p, student_id, date) ==
    \E q \in Procs \ {p} : tx[q].open /\ student_id # NullId
        /\ \E k \in 1..Len(tx[q].att) :
              tx[q].att[k].student_id = student_id /\ tx[q].att[k].date = date

\* number of attendance rows of a key
Copies(tbl, student_id, date) ==
    LET hit == {r \in BagToSet(tbl) : r.student_id = student_id /\ r.date = date}
    IN  BagCardinality([r \in hit |-> tbl[r]])

----------------------------------------------------------------------------
(* Requests *)

\* the payload of a credential, req.user once the gate has verified it
NoUser == [id |-> 0, role |-> "", name |-> ""]
\* an Authorization header: absent, a token signed by login (jwt.sign, within its
\* validity of one day), or a token that does not verify (bad signature, expired)
NoToken == [kind |-> "none", payload |-> NoUser]
Sign(payload) == [kind |-> "jwt", payload |-> payload]
Forged(payload) == [kind |-> "forged", payload |-> payload]

NoReq == [op |-> "none"]
NoStudent == [id |-> 0, user_id |-> 0, name |-> "", class_name |-> "", roll_no |-> 0,
              student_id_code |-> NoCode]
NoUserRow == [id |-> 0, email |-> "", password_hash |-> <<>>, role |-> ""]
NoLoc == [i |-> 0, userId |-> 0, nextId |-> 0, studentIdCode |-> NoCode, conflict |-> "",
          totalStudents |-> 0, student |-> NoStudent, user |-> NoUserRow,
          again |-> FALSE, fault |-> FALSE]
NoStats == [total_students |-> 0, present_today |-> 0, absent_today |-> 0]
NoDashboard == [name |-> "", id_code |-> NoCode, class |-> "", roll_no |-> 0,
                percentage |-> <<>>, total_present |-> 0, total_days |-> 0]
NoResp == [sent |-> 0, status |-> 0, error |-> "", message |-> "",
           studentIdCode |-> NoCode, userId |-> 0, rows |-> <<>>, stats |-> NoStats,
           dashboard |-> NoDashboard, token |-> NoToken, user |-> NoUser]
NoIo == [acquired |-> 0, released |-> 0, queries |-> 0]

NoTables == [users |-> {}, students |-> {}, teachers |-> {}, attendance |-> EmptyBag]
Tables == [users |-> users, students |-> students, teachers |-> teachers,
           attendance |-> attendance]

\* res.status(st).json({ error })
SendError(r, st, msg) == [r EXCEPT !.sent = @ + 1, !.status = st, !.error = msg]

InFlight(p) == pc[p] \notin {"idle", "done"}

\* the handlers of one specification run one at a time (exclusive) or interleave
MayStart(p, exclusive) ==
    /\ pc[p] = "idle"
    /\ calls < MaxCalls
    /\ exclusive => \A q \in Procs : ~InFlight(q)

\* entering a handler: fresh locals, no response yet
Enter(p, r, next) ==
    /\ req' = [req EXCEPT ![p] = r]
    /\ pc' = [pc EXCEPT ![p] = next]
    /\ loc' = [loc EXCEPT ![p] = [NoLoc EXCEPT !.userId = 10 + calls]]
    /\ resp' = [resp EXCEPT ![p] = NoResp]
    /\ io' = [io EXCEPT ![p] = NoIo]
    /\ pre' = [pre EXCEPT ![p] = Tables]
    /\ calls' = calls + 1
    /\ UNCHANGED <<dbvars, checkedOut, tx>>

\* a handler returning at once with res.status(400).json({ error })
Reject(p, r, msg) ==
    /\ req' = [req EXCEPT ![p] = r]
    /\ pc' = [pc EXCEPT ![p] = "done"]
    /\ loc' = [loc EXCEPT ![p] = NoLoc]
    /\ resp' = [resp EXCEPT ![p] = SendError(NoResp, 400, msg)]
    /\ io' = [io EXCEPT ![p] = NoIo]
    /\ pre' = [pre EXCEPT ![p] = Tables]
    /\ calls' = calls + 1
    /\ UNCHANGED <<dbvars, checkedOut, tx>>

\* the handler's promise has settled: the slot is free for the next request
EndRequest(p) ==
    /\ pc[p] = "done"
    /\ pc' = [pc EXCEPT ![p] = "idle"]
    /\ req' = [req EXCEPT ![p] = NoReq]
    /\ loc' = [loc EXCEPT ![p] = NoLoc]
    /\ resp' = [resp EXCEPT ![p] = NoResp]
    /\ io' = [io EXCEPT ![p] = NoIo]
    /\ pre' = [pre EXCEPT ![p] = NoTables]
    /\ headers' = [headers EXCEPT ![p] = NoToken]
    /\ UNCHANGED clientvars
    /\ UNCHANGED <<dbvars, checkedOut, tx, calls>>

Goto(p, next) == pc' = [pc EXCEPT ![p] = next]
Queried(p) == io' = [io EXCEPT ![p].queries = @ + 1]

\* a statement that throws inside the handler's try block: control moves to catch
Throw(p) == Goto(p, "catch") /\ Queried(p)

\* loc.fault records that a storage step failed for a reason other than a constraint
\* (connection lost, timeout, server error)
Faulted(p) == loc' = [loc EXCEPT ![p].fault = TRUE]
Fault(p) == Throw(p) /\ Faulted(p)

\* const client = await pool.connect()
PoolConnect(p) ==
    /\ checkedOut < PoolMax
    /\ checkedOut' = checkedOut + 1
    /\ io' = [io EXCEPT ![p].acquired = @ + 1]

\* a last statement on the client followed by client.release() in finally
QueryAndRelease(p) ==
    /\ checkedOut' = checkedOut - 1
    /\ io' = [io EXCEPT ![p].released = @ + 1, ![p].queries = @ + 1]

\* client.query('COMMIT'): the writes of the transaction reach the tables together
Commit(p) ==
    /\ users' = users \cup tx[p].users
    /\ students' = students \cup tx[p].students
    /\ attendance' = UpsertAll(attendance, tx[p].att)
    /\ tx' = [tx EXCEPT ![p] = EmptyTx]
    /\ UNCHANGED <<teachers, studentSeq>>

----------------------------------------------------------------------------
(* createStudent: POST /teacher/students/create *)

CreateBodies ==
    {b \in [name : {"Jane", ""}, email : Emails \cup {AdminEmail, ""}, password : {"pw", ""},
            class_name : ClassNames \cup {""}, roll_no : Rolls \cup {0}] :
        Cardinality({f \in {"name", "email", "password", "class_name"} : b[f] = ""})
            + (IF b.roll_no = 0 THEN 1 ELSE 0) <= 1}

IsCs(p) == req[p].op = "createStudent"

CallCreateStudent(p, body, exclusive) ==
    /\ MayStart(p, exclusive)
    /\ LET r == [op |-> "createStudent", body |-> body]
       IN  IF FalsyStr(body.name) THEN Reject(p, r, "Name is required")
           ELSE IF FalsyStr(body.email) THEN Reject(p, r, "Email is required")
           ELSE IF FalsyStr(body.password) THEN Reject(p, r, "Password is required")
           ELSE IF FalsyStr(body.class_name) THEN Reject(p, r, "Class is required")
           ELSE IF FalsyNum(body.roll_no) THEN Reject(p, r, "Roll number is required")
           ELSE Enter(p, r, "connect")

\* const client = await pool.connect(): outside try, a rejection leaves the handler
\* without a response
CsConnect(p) ==
    /\ IsCs(p) /\ pc[p] = "connect"
    /\ \/ PoolConnect(p) /\ Goto(p, "begin") /\ UNCHANGED loc
       \/ Goto(p, "done") /\ Faulted(p) /\ UNCHANGED <<checkedOut, io>>
    /\ UNCHANGED <<dbvars, tx, req, resp, pre, calls, headers, clientvars>>

CsBegin(p) ==
    /\ IsCs(p) /\ pc[p] = "begin"
    /\ \/ tx' = [tx EXCEPT ![p] = BeginTx(@)] /\ Goto(p, "checkEmail") /\ Queried(p)
          /\ UNCHANGED loc
       \/ Fault(p) /\ UNCHANGED tx
    /\ UNCHANGED <<dbvars, checkedOut, req, resp, pre, calls, headers, clientvars>>

CsCheckEmail(p) ==
    /\ IsCs(p) /\ pc[p] = "checkEmail"
    /\ \/ /\ Queried(p)
          /\ IF SelectUsersByEmail(VisibleUsers(p), req[p].body.email) # {}
             THEN Goto(p, "rollback400")
                  /\ loc' = [loc EXCEPT ![p].conflict = "User already exists"]
             ELSE Goto(p, "checkRoll") /\ UNCHANGED loc
       \/ Fault(p)
    /\ UNCHANGED <<dbvars, checkedOut, tx, req, resp, pre, calls, headers, clientvars>>

CsCheckRoll(p) ==
    /\ IsCs(p) /\ pc[p] = "checkRoll"
    /\ \/ /\ Queried(p)
          /\ IF SelectStudentsByRoll(VisibleStudents(p), req[p].body.class_name,
                                     req[p].body.roll_no) # {}
             THEN Goto(p, "rollback400")
                  /\ loc' = [loc EXCEPT ![p].conflict = "Roll number already exists in class"]
             ELSE Goto(p, "insertUser") /\ UNCHANGED loc
       \/ Fault(p)
    /\ UNCHANGED <<dbvars, checkedOut, tx, req, resp, pre, calls, headers, clientvars>>

\* the early return of a conflict leaving the handler without passing finally
CsRollbackConflictWithoutRelease(p) ==
    /\ IsCs(p) /\ pc[p] = "rollback400"
    /\ \/ /\ tx' = [tx EXCEPT ![p] = RollbackTx(@)]
          /\ resp' = [resp EXCEPT ![p] = SendError(@, 400, loc[p].conflict)]
          /\ Queried(p) /\ Goto(p, "done") /\ UNCHANGED <<loc, checkedOut>>
       \/ Fault(p) /\ UNCHANGED <<tx, resp, checkedOut>>
    /\ UNCHANGED <<dbvars, req, pre, calls, headers, clientvars>>

\* await client.query('ROLLBACK'); return res.status(400).json(...); finally release
CsRollbackConflict(p) ==
    /\ IsCs(p) /\ pc[p] = "rollback400"
    /\ \/ /\ tx' = [tx EXCEPT ![p] = RollbackTx(@)]
          /\ resp' = [resp EXCEPT ![p] = SendError(@, 400, loc[p].conflict)]
          /\ QueryAndRelease(p) /\ Goto(p, "done") /\ UNCHANGED loc
       \/ Fault(p) /\ UNCHANGED <<tx, resp, checkedOut>>
    /\ UNCHANGED <<dbvars, req, pre, calls, headers, clientvars>>

NewUser(p) == [id |-> loc[p].userId, email |-> req[p].body.email,
               password_hash |-> Hash(req[p].body.password), role |-> "STUDENT"]

CsInsertUser(p) ==
    /\ IsCs(p) /\ pc[p] = "insertUser"
    /\ \/ /\ ~UserInsertWaits(p, NewUser(p))
          /\ UNCHANGED loc
          /\ IF UserInsertViolates(VisibleUsers(p), NewUser(p))
             THEN Throw(p) /\ UNCHANGED <<tx, users>>
             ELSE /\ Goto(p, "count") /\ Queried(p)
                  /\ IF tx[p].open
                     THEN tx' = [tx EXCEPT ![p].users = @ \cup {NewUser(p)}] /\ UNCHANGED users
                     ELSE users' = users \cup {NewUser(p)} /\ UNCHANGED tx
       \/ Fault(p) /\ UNCHANGED <<tx, users>>
    /\ UNCHANGED <<students, teachers, attendance, studentSeq, checkedOut, req, resp,
                   pre, calls, headers, clientvars>>

\* SELECT COUNT(*) FROM students; nextId = count + 1; studentIdCode
CsCount(p) ==
    /\ IsCs(p) /\ pc[p] = "count"
    /\ \/ /\ Goto(p, "insertStudent") /\ Queried(p)
          /\ LET nextId == Cardinality(VisibleStudents(p)) + 1
             IN  loc' = [loc EXCEPT ![p].nextId = nextId,
                                    ![p].studentIdCode = StudentIdCode(nextId)]
       \/ Fault(p)
    /\ UNCHANGED <<dbvars, checkedOut, tx, req, resp, pre, calls, headers, clientvars>>

NewStudent(p) == [id |-> studentSeq + 1, user_id |-> loc[p].userId, name |-> req[p].body.name,
                  class_name |-> req[p].body.class_name, roll_no |-> req[p].body.roll_no,
                  student_id_code |-> loc[p].studentIdCode]

\* the SERIAL sequence is advanced by an insert that then violates a constraint
CsInsertStudent(p) ==
    /\ IsCs(p) /\ pc[p] = "insertStudent"
    /\ \/ /\ ~StudentInsertWaits(p, NewStudent(p))
          /\ studentSeq' = studentSeq + 1
          /\ UNCHANGED loc
          /\ IF StudentInsertViolates(VisibleStudents(p), VisibleUsers(p), NewStudent(p))
             THEN Throw(p) /\ UNCHANGED <<tx, students>>
             ELSE /\ Goto(p, "commit") /\ Queried(p)
                  /\ IF tx[p].open
                     THEN tx' = [tx EXCEPT ![p].students = @ \cup {NewStudent(p)}]
                          /\ UNCHANGED students
                     ELSE students' = students \cup {NewStudent(p)} /\ UNCHANGED tx
       \/ Fault(p) /\ UNCHANGED <<tx, students, studentSeq>>
    /\ UNCHANGED <<users, teachers, attendance, checkedOut, req, resp, pre, calls, headers, clientvars>>

\* COMMIT; res.status(201).json({ message, studentIdCode }); finally release
CsCommit(p) ==
    /\ IsCs(p) /\ pc[p] = "commit"
    /\ \/ /\ Commit(p)
          /\ resp' = [resp EXCEPT ![p] = [@ EXCEPT !.sent = @ + 1, !.status = 201,
                                             !.message = "Student created successfully",
                                             !.studentIdCode = loc[p].studentIdCode]]
          /\ QueryAndRelease(p) /\ Goto(p, "done") /\ UNCHANGED loc
       \/ Fault(p) /\ UNCHANGED <<dbvars, tx, resp, checkedOut>>
    /\ UNCHANGED <<req, pre, calls, headers, clientvars>>

\* a catch block that commits what the transaction wrote
CsCatchCommits(p) ==
    /\ IsCs(p) /\ pc[p] = "catch"
    /\ Commit(p)
    /\ resp' = [resp EXCEPT ![p] = SendError(@, 500, "Server error")]
    /\ QueryAndRelease(p) /\ Goto(p, "done")
    /\ UNCHANGED <<req, loc, pre, calls, headers, clientvars>>

\* catch: ROLLBACK, then 500; a ROLLBACK that throws leaves the catch block before the
\* response is sent (the server ends the transaction of the broken connection);
\* finally releases the client either way
CsCatch(p) ==
    /\ IsCs(p) /\ pc[p] = "catch"
    /\ tx' = [tx EXCEPT ![p] = RollbackTx(@)]
    /\ \/ resp' = [resp EXCEPT ![p] = SendError(@, 500, "Server error")] /\ UNCHANGED loc
       \/ Faulted(p) /\ UNCHANGED resp
    /\ QueryAndRelease(p) /\ Goto(p, "done")
    /\ UNCHANGED <<dbvars, req, pre, calls, headers, clientvars>>

----------------------------------------------------------------------------
(* markAttendanceBulk: POST /teacher/attendance/bulk *)

\* req.body.records: undefined, a value that is no array, or an array of entries
Undefined == [kind |-> "undefined", items |-> <<>>]
NotAnArray == [kind |-> "object", items |-> <<>>]
ArrayOf(items) == [kind |-> "array", items |-> items]

Batches(entries) == UNION {[1..n -> entries] : n \in 0..MaxBatch}

\* request bodies over a set of entries: arrays, and the bodies the handler rejects
MarkBodies(entries) ==
    [date : Dates, records : {ArrayOf(b) : b \in Batches(entries)}]
        \cup [date : {NoDate}, records : {ArrayOf(<<>>)}]
        \cup [date : Dates, records : {Undefined, NotAnArray}]

IsMb(p) == req[p].op = "markAttendanceBulk"

CallMarkAttendanceBulk(p, body, exclusive) ==
    /\ MayStart(p, exclusive)
    /\ LET r == [op |-> "markAttendanceBulk", body |-> body]
       IN  IF FalsyDate(body.date) \/ body.records.kind = "undefined"
                \/ body.records.kind # "array"
           THEN Reject(p, r, "Invalid data")
           ELSE Enter(p, r, "connect")

\* the caller posts the body of its last successful call once more (Save clicked twice)
ResubmitMarkAttendanceBulk(p) ==
    /\ IsMb(p) /\ pc[p] = "done" /\ resp[p].status = 200
    /\ calls < MaxCalls
    /\ pc' = [pc EXCEPT ![p] = "connect"]
    /\ loc' = [loc EXCEPT ![p] = [NoLoc EXCEPT !.again = TRUE]]
    /\ resp' = [resp EXCEPT ![p] = NoResp]
    /\ io' = [io EXCEPT ![p] = NoIo]
    /\ pre' = [pre EXCEPT ![p] = Tables]
    /\ calls' = calls + 1
    /\ UNCHANGED <<dbvars, checkedOut, tx, req, headers, clientvars>>

MbConnect(p) ==
    /\ IsMb(p) /\ pc[p] = "connect"
    /\ \/ PoolConnect(p) /\ Goto(p, "begin") /\ UNCHANGED loc
       \/ Goto(p, "done") /\ Faulted(p) /\ UNCHANGED <<checkedOut, io>>
    /\ UNCHANGED <<dbvars, tx, req, resp, pre, calls, headers, clientvars>>

\* for (const record of records): the next await is an upsert, or COMMIT after the last
AfterEntry(p, done) == IF done = Len(req[p].body.records.items) THEN "commit" ELSE "upsert"

\* the loop run without BEGIN: every statement autocommits
MbBeginSkipped(p) ==
    /\ IsMb(p) /\ pc[p] = "begin"
    /\ Goto(p, AfterEntry(p, 0)) /\ Queried(p)
    /\ UNCHANGED <<dbvars, checkedOut, tx, req, loc, resp, pre, calls, headers, clientvars>>

MbBegin(p) ==
    /\ IsMb(p) /\ pc[p] = "begin"
    /\ \/ tx' = [tx EXCEPT ![p] = BeginTx(@)] /\ Goto(p, AfterEntry(p, 0)) /\ Queried(p)
          /\ UNCHANGED loc
       \/ Fault(p) /\ UNCHANGED tx
    /\ UNCHANGED <<dbvars, checkedOut, req, resp, pre, calls, headers, clientvars>>

MbUpsert(p) ==
    /\ IsMb(p) /\ pc[p] = "upsert"
    /\ LET record == req[p].body.records.items[loc[p].i + 1]
           date == req[p].body.date
           row == [student_id |-> record.student_id, date |-> date, status |-> record.status]
       IN  \/ /\ ~UpsertWaits(p, record.student_id, date)
              /\ IF AttendanceInsertViolates(VisibleStudents(p), record.student_id,
                                             record.status)
                 THEN Throw(p) /\ UNCHANGED <<tx, attendance, loc>>
                 ELSE /\ Goto(p, AfterEntry(p, loc[p].i + 1)) /\ Queried(p)
                      /\ loc' = [loc EXCEPT ![p].i = @ + 1]
                      /\ IF tx[p].open
                         THEN tx' = [tx EXCEPT ![p].att = Append(@, row)]
                              /\ UNCHANGED attendance
                         ELSE attendance' = Upsert(attendance, row.student_id, row.date,
                                                   row.status)
                              /\ UNCHANGED tx
           \/ Fault(p) /\ UNCHANGED <<tx, attendance>>
    /\ UNCHANGED <<users, students, teachers, studentSeq, checkedOut, req, resp, pre, calls, headers, clientvars>>

\* COMMIT; res.json({ message: 'Attendance updated' }); finally release
MbCommit(p) ==
    /\ IsMb(p) /\ pc[p] = "commit"
    /\ \/ /\ Commit(p)
          /\ resp' = [resp EXCEPT ![p] = [@ EXCEPT !.sent = @ + 1, !.status = 200,
                                             !.message = "Attendance updated"]]
          /\ QueryAndRelease(p) /\ Goto(p, "done") /\ UNCHANGED loc
       \/ Fault(p) /\ UNCHANGED <<dbvars, tx, resp, checkedOut>>
    /\ UNCHANGED <<req, pre, calls, headers, clientvars>>

\* catch: ROLLBACK, then 500; a ROLLBACK that throws leaves the catch block before the
\* response is sent; finally releases the client either way
MbCatch(p) ==
    /\ IsMb(p) /\ pc[p] = "catch"
    /\ tx' = [tx EXCEPT ![p] = RollbackTx(@)]
    /\ \/ resp' = [resp EXCEPT ![p] = SendError(@, 500, "Server error")] /\ UNCHANGED loc
       \/ Faulted(p) /\ UNCHANGED resp
    /\ QueryAndRelease(p) /\ Goto(p, "done")
    /\ UNCHANGED <<dbvars, req, pre, calls, headers, clientvars>>

----------------------------------------------------------------------------
(* register: POST /auth/register. Every statement is a pool.query of its own:    *)
(* the pool checks a client out and in around it and the statement autocommits   *)

IsRg(p) == req[p].op = "register"

\* pool.query(...): one client checked out and released, one statement
PoolQuery(p) == io' = [io EXCEPT ![p].acquired = @ + 1, ![p].released = @ + 1,
                                 ![p].queries = @ + 1]

\* catch (err) { res.status(500).json({ error: 'Server error' }) }
Caught(p) ==
    /\ resp' = [resp EXCEPT ![p] = SendError(@, 500, "Server error")]
    /\ Goto(p, "done") /\ PoolQuery(p)

CallRegister(p, body, exclusive) ==
    /\ MayStart(p, exclusive)
    /\ LET r == [op |-> "register", body |-> body]
       IN  IF FalsyStr(body.name) \/ FalsyStr(body.email) \/ FalsyStr(body.password)
                \/ FalsyStr(body.role)
           THEN Reject(p, r, "Please provide all fields")
           ELSE Enter(p, r, "checkEmail")

RgCheckEmail(p) ==
    /\ IsRg(p) /\ pc[p] = "checkEmail"
    /\ \/ /\ PoolQuery(p) /\ UNCHANGED loc
          /\ IF SelectUsersByEmail(users, req[p].body.email) # {}
             THEN /\ resp' = [resp EXCEPT ![p] = SendError(@, 400, "User already exists")]
                  /\ Goto(p, "done")
             ELSE Goto(p, "insertUser") /\ UNCHANGED resp
       \/ Caught(p) /\ Faulted(p)
    /\ UNCHANGED <<dbvars, checkedOut, tx, req, pre, calls, headers, clientvars>>

RegisteredUser(p) == [id |-> loc[p].userId, email |-> req[p].body.email,
                      password_hash |-> Hash(req[p].body.password), role |-> req[p].body.role]

\* INSERT INTO users ...: role must be a user_role
RgInsertUser(p) ==
    /\ IsRg(p) /\ pc[p] = "insertUser"
    /\ \/ /\ ~UserInsertWaits(p, RegisteredUser(p))
          /\ UNCHANGED loc
          /\ IF UserInsertViolates(users, RegisteredUser(p)) \/ req[p].body.role \notin Roles
             THEN Caught(p) /\ UNCHANGED users
             ELSE /\ users' = users \cup {RegisteredUser(p)}
                  /\ Goto(p, IF req[p].body.role = "STUDENT" THEN "insertStudent"
                             ELSE "insertTeacher")
                  /\ PoolQuery(p) /\ UNCHANGED resp
       \/ Caught(p) /\ Faulted(p) /\ UNCHANGED users
    /\ UNCHANGED <<students, teachers, attendance, studentSeq, checkedOut, tx, req, pre, calls, headers, clientvars>>

Registered(r, userId) == [r EXCEPT !.sent = @ + 1, !.status = 201,
                                   !.message = "User registered successfully",
                                   !.userId = userId]

\* INSERT INTO students (user_id, name): class_name, roll_no and student_id_code are NULL
RgInsertStudent(p) ==
    /\ IsRg(p) /\ pc[p] = "insertStudent"
    /\ \/ /\ students' = students \cup
                 {[id |-> studentSeq + 1, user_id |-> loc[p].userId, name |-> req[p].body.name,
                   class_name |-> "", roll_no |-> 0, student_id_code |-> NoCode]}
          /\ studentSeq' = studentSeq + 1
          /\ resp' = [resp EXCEPT ![p] = Registered(@, loc[p].userId)]
          /\ Goto(p, "done") /\ PoolQuery(p) /\ UNCHANGED loc
       \/ Caught(p) /\ Faulted(p) /\ UNCHANGED <<students, studentSeq>>
    /\ UNCHANGED <<users, teachers, attendance, checkedOut, tx, req, pre, calls, headers, clientvars>>

\* INSERT INTO teachers (user_id, name): subject is NULL
RgInsertTeacher(p) ==
    /\ IsRg(p) /\ pc[p] = "insertTeacher"
    /\ \/ /\ teachers' = teachers \cup
                 {[id |-> Cardinality(teachers) + 1, user_id |-> loc[p].userId,
                   name |-> req[p].body.name, subject |-> ""]}
          /\ resp' = [resp EXCEPT ![p] = Registered(@, loc[p].userId)]
          /\ Goto(p, "done") /\ PoolQuery(p) /\ UNCHANGED loc
       \/ Caught(p) /\ Faulted(p) /\ UNCHANGED teachers
    /\ UNCHANGED <<users, students, attendance, studentSeq, checkedOut, tx, req, pre, calls, headers, clientvars>>

----------------------------------------------------------------------------
(* The read handlers of the teacher controller: one pool.query each (two for the  *)
(* dashboard), the rows shaped in JavaScript                                       *)

\* collation of the class labels of the model; NULL sorts last (ASC NULLS LAST)
ClassRank(c) == CASE c = "10-A" -> 1 [] c = "10-B" -> 2 [] OTHER -> 3
RollRank(n) == IF n = 0 THEN 1000000 ELSE n

\* an ORDER BY s.class_name alone
OrderedBeforeByClassOnly(r1, r2) ==
    ClassRank(r1.class_name) <= ClassRank(r2.class_name)

\* ORDER BY s.class_name, s.roll_no
OrderedBefore(r1, r2) ==
    \/ ClassRank(r1.class_name) < ClassRank(r2.class_name)
    \/ /\ ClassRank(r1.class_name) = ClassRank(r2.class_name)
       /\ RollRank(r1.roll_no) <= RollRank(r2.roll_no)

\* the orders in which the rows of a result can be returned (ties in any order)
Ordered(rows) ==
    {q \in [1..Cardinality(rows) -> rows] :
        /\ \A r \in rows : \E k \in DOMAIN q : q[k] = r
        /\ \A j, k \in DOMAIN q : j < k => OrderedBefore(q[j], q[k])}

\* WHERE s.class_name = $n when class_name is given and is not 'All'
InClass(stbl, class_name) ==
    IF class_name # "" /\ class_name # "All"
    THEN {st \in stbl : st.class_name = class_name}
    ELSE stbl

\* a percentage cut after its first decimal instead of rounded
ToFixed1Truncating(present, total) ==
    LET tenths == (1000 * present) \div total
    IN  StringOf(tenths \div 10) \o <<".">> \o <<DigitChar(tenths % 10)>>

\* (x).toFixed(1) of present / total * 100: tenths rounded half up, as digit characters
ToFixed1(present, total) ==
    LET tenths == (2000 * present + total) \div (2 * total)
    IN  StringOf(tenths \div 10) \o <<".">> \o <<DigitChar(tenths % 10)>>

\* number of rows of the table (with their multiplicity) among the distinct rows hit
CountRows(tbl, hit) == BagCardinality([r \in hit |-> tbl[r]])

IsGs(p) == req[p].op = "getAttendanceSheet"
IsMr(p) == req[p].op = "getMonthlyAttendanceReport"
IsLa(p) == req[p].op = "getLowAttendanceList"
IsDs(p) == req[p].op = "getDashboardStats"

\* res.json(rows)
SendRows(r, rows) == [r EXCEPT !.sent = @ + 1, !.status = 200, !.rows = rows]

\* a join ON s.id = a.student_id alone: the records of every date
SheetRowsAnyDate(stbl, atbl, date) ==
    UNION {LET hit == {a \in BagToSet(atbl) : a.student_id = st.id}
           IN  {[student_id |-> st.id, name |-> st.name,
                 student_id_code |-> st.student_id_code, class_name |-> st.class_name,
                 roll_no |-> st.roll_no, status |-> status] :
                    status \in IF hit = {} THEN {""} ELSE {a.status : a \in hit}}
           : st \in stbl}

\* students s LEFT JOIN attendance a ON s.id = a.student_id AND a.date = $1
SheetRows(stbl, atbl, date) ==
    UNION {LET hit == {a \in BagToSet(atbl) : a.student_id = st.id /\ a.date = date}
           IN  {[student_id |-> st.id, name |-> st.name,
                 student_id_code |-> st.student_id_code, class_name |-> st.class_name,
                 roll_no |-> st.roll_no, status |-> status] :
                    status \in IF hit = {} THEN {""} ELSE {a.status : a \in hit}}
           : st \in stbl}

CallGetAttendanceSheet(p, query, exclusive) ==
    /\ MayStart(p, exclusive)
    /\ LET r == [op |-> "getAttendanceSheet", query |-> query]
       IN  IF FalsyDate(query.date) THEN Reject(p, r, "Date required")
           ELSE Enter(p, r, "query")

GsQuery(p) ==
    /\ IsGs(p) /\ pc[p] = "query"
    /\ \/ /\ \E rows \in Ordered(SheetRows(InClass(students, req[p].query.class_name),
                                           attendance, req[p].query.date)) :
                resp' = [resp EXCEPT ![p] = SendRows(@, rows)]
          /\ Goto(p, "done") /\ PoolQuery(p) /\ UNCHANGED loc
       \/ Caught(p) /\ Faulted(p)
    /\ UNCHANGED <<dbvars, checkedOut, tx, req, pre, calls, headers, clientvars>>

\* an inner JOIN: the students without a record in the month are dropped
MonthlyRowsInnerJoin(stbl, atbl, month, year) ==
    {LET joined == {a \in BagToSet(atbl) : /\ a.student_id = st.id
                                           /\ a.date[2] = month /\ a.date[1] = year}
         total == CountRows(atbl, joined)
         present == CountRows(atbl, {a \in joined : a.status = "PRESENT"})
     IN  [student_id |-> st.id, name |-> st.name, roll_no |-> st.roll_no,
          class_name |-> st.class_name, total_days |-> total, present_days |-> present,
          percentage |-> ToFixed1(present, total)]
     : st \in {st \in stbl : \E a \in BagToSet(atbl) :
                  a.student_id = st.id /\ a.date[2] = month /\ a.date[1] = year}}

\* GROUP BY student over the LEFT JOIN restricted to the month and year, then the
\* percentage computed in JavaScript
MonthlyRows(stbl, atbl, month, year) ==
    {LET joined == {a \in BagToSet(atbl) : /\ a.student_id = st.id
                                           /\ a.date[2] = month /\ a.date[1] = year}
         total == CountRows(atbl, joined)
         present == CountRows(atbl, {a \in joined : a.status = "PRESENT"})
     IN  [student_id |-> st.id, name |-> st.name, roll_no |-> st.roll_no,
          class_name |-> st.class_name, total_days |-> total, present_days |-> present,
          percentage |-> IF total > 0 THEN ToFixed1(present, total) ELSE <<"0", ".", "0">>]
     : st \in stbl}

CallGetMonthlyAttendanceReportMonthOnly(p, query, exclusive) ==
    /\ MayStart(p, exclusive)
    /\ LET r == [op |-> "getMonthlyAttendanceReport", query |-> query]
       IN  IF FalsyNum(query.month)
           THEN Reject(p, r, "Month and Year are required")
           ELSE Enter(p, r, "query")

CallGetMonthlyAttendanceReport(p, query, exclusive) ==
    /\ MayStart(p, exclusive)
    /\ LET r == [op |-> "getMonthlyAttendanceReport", query |-> query]
       IN  IF FalsyNum(query.month) \/ FalsyNum(query.year)
           THEN Reject(p, r, "Month and Year are required")
           ELSE Enter(p, r, "query")

MrQuery(p) ==
    /\ IsMr(p) /\ pc[p] = "query"
    /\ \/ /\ \E rows \in Ordered(MonthlyRows(InClass(students, req[p].query.class_name),
                                             attendance, req[p].query.month,
                                             req[p].query.year)) :
                resp' = [resp EXCEPT ![p] = SendRows(@, rows)]
          /\ Goto(p, "done") /\ PoolQuery(p) /\ UNCHANGED loc
       \/ Caught(p) /\ Faulted(p)
    /\ UNCHANGED <<dbvars, checkedOut, tx, req, pre, calls, headers, clientvars>>

\* COUNT(a.id) and SUM(CASE WHEN a.status = 'PRESENT' THEN 1 ELSE 0 END) of a student
TotalDays(atbl, student_id) ==
    CountRows(atbl, {a \in BagToSet(atbl) : a.student_id = student_id})
PresentDays(atbl, student_id) ==
    CountRows(atbl, {a \in BagToSet(atbl) : a.student_id = student_id
                                            /\ a.status = "PRESENT"})

\* students JOIN users LEFT JOIN attendance GROUP BY student
\* HAVING COUNT(a.id) > 0 AND present / total * 100 < 75
\* a HAVING that keeps the ratios up to and including the threshold
LowAttendanceRowsUpToThreshold(stbl, utbl, atbl) ==
    {[student_id |-> st.id, name |-> st.name, class_name |-> st.class_name,
      roll_no |-> st.roll_no, email |-> (CHOOSE u \in utbl : u.id = st.user_id).email,
      total_days |-> TotalDays(atbl, st.id), present_days |-> PresentDays(atbl, st.id),
      percentage |-> ToFixed1(PresentDays(atbl, st.id), TotalDays(atbl, st.id))]
     : st \in {st \in stbl :
                 /\ \E u \in utbl : u.id = st.user_id
                 /\ TotalDays(atbl, st.id) > 0
                 /\ 100 * PresentDays(atbl, st.id) <= Threshold * TotalDays(atbl, st.id)}}

\* a HAVING COUNT(*) > 0, which counts the row the LEFT JOIN keeps for a student
\* without records (the percentage of 0 / 0 is NaN)
LowAttendanceRowsCountingJoinRows(stbl, utbl, atbl) ==
    {[student_id |-> st.id, name |-> st.name, class_name |-> st.class_name,
      roll_no |-> st.roll_no, email |-> (CHOOSE u \in utbl : u.id = st.user_id).email,
      total_days |-> TotalDays(atbl, st.id), present_days |-> PresentDays(atbl, st.id),
      percentage |-> IF TotalDays(atbl, st.id) = 0 THEN <<"N", "a", "N">>
                     ELSE ToFixed1(PresentDays(atbl, st.id), TotalDays(atbl, st.id))]
     : st \in {st \in stbl :
                 /\ \E u \in utbl : u.id = st.user_id
                 /\ \/ TotalDays(atbl, st.id) = 0
                    \/ 100 * PresentDays(atbl, st.id) < Threshold * TotalDays(atbl, st.id)}}

LowAttendanceRows(stbl, utbl, atbl) ==
    {[student_id |-> st.id, name |-> st.name, class_name |-> st.class_name,
      roll_no |-> st.roll_no, email |-> (CHOOSE u \in utbl : u.id = st.user_id).email,
      total_days |-> TotalDays(atbl, st.id), present_days |-> PresentDays(atbl, st.id),
      percentage |-> ToFixed1(PresentDays(atbl, st.id), TotalDays(atbl, st.id))]
     : st \in {st \in stbl :
                 /\ \E u \in utbl : u.id = st.user_id
                 /\ TotalDays(atbl, st.id) > 0
                 /\ 100 * PresentDays(atbl, st.id) < Threshold * TotalDays(atbl, st.id)}}

CallGetLowAttendanceList(p, exclusive) ==
    /\ MayStart(p, exclusive)
    /\ Enter(p, [op |-> "getLowAttendanceList"], "query")

LaQuery(p) ==
    /\ IsLa(p) /\ pc[p] = "query"
    /\ \/ /\ \E rows \in Ordered(LowAttendanceRows(students, users, attendance)) :
                resp' = [resp EXCEPT ![p] = SendRows(@, rows)]
          /\ Goto(p, "done") /\ PoolQuery(p) /\ UNCHANGED loc
       \/ Caught(p) /\ Faulted(p)
    /\ UNCHANGED <<dbvars, checkedOut, tx, req, pre, calls, headers, clientvars>>

CallGetDashboardStats(p, exclusive) ==
    /\ MayStart(p, exclusive)
    /\ Enter(p, [op |-> "getDashboardStats"], "countStudents")

\* SELECT COUNT(*) as count FROM students
DsCountStudents(p) ==
    /\ IsDs(p) /\ pc[p] = "countStudents"
    /\ \/ /\ loc' = [loc EXCEPT ![p].totalStudents = Cardinality(students)]
          /\ Goto(p, "countAttendance") /\ PoolQuery(p) /\ UNCHANGED resp
       \/ Caught(p) /\ Faulted(p)
    /\ UNCHANGED <<dbvars, checkedOut, tx, req, pre, calls, headers, clientvars>>

\* a count without the WHERE date = $1
CountByStatusAnyDate(tbl, date, status) ==
    LET hit == {r \in BagToSet(tbl) : r.status = status}
    IN  BagCardinality([r \in hit |-> tbl[r]])

\* number of attendance rows of a date and status (one row of the GROUP BY status)
CountByStatus(tbl, date, status) ==
    LET hit == {r \in BagToSet(tbl) : r.date = date /\ r.status = status}
    IN  BagCardinality([r \in hit |-> tbl[r]])

\* SELECT status, COUNT(*) FROM attendance WHERE date = $1 GROUP BY status
DsCountAttendance(p) ==
    /\ IsDs(p) /\ pc[p] = "countAttendance"
    /\ \/ /\ resp' = [resp EXCEPT ![p] =
                        [@ EXCEPT !.sent = @ + 1, !.status = 200,
                                  !.stats = [total_students |-> loc[p].totalStudents,
                                             present_today |->
                                                 CountByStatus(attendance, Today, "PRESENT"),
                                             absent_today |->
                                                 CountByStatus(attendance, Today, "ABSENT")]]]
          /\ Goto(p, "done") /\ PoolQuery(p) /\ UNCHANGED loc
       \/ Caught(p) /\ Faulted(p)
    /\ UNCHANGED <<dbvars, checkedOut, tx, req, pre, calls, headers, clientvars>>

----------------------------------------------------------------------------
(* The student controller: the dashboard and the calendar of the student whose    *)
(* user id the request carries                                                     *)

IsSd(p) == req[p].op = "getStudentDashboard"
IsSc(p) == req[p].op = "getAttendanceCalendar"

\* the user id taken from the query parameter whenever one is given
UserIdOfQueryFirst(r) == IF r.query.user_id # 0 THEN r.query.user_id ELSE r.user.id

\* const userId = req.user ? req.user.id : req.query.user_id
UserIdOf(r) == IF r.user # NoUser THEN r.user.id ELSE r.query.user_id

\* SELECT * FROM students WHERE user_id = $1
SelectStudentsByUser(stbl, userId) == {st \in stbl : st.user_id = userId}

\* SELECT status, COUNT(*) FROM attendance WHERE student_id = $1 GROUP BY status:
\* the count of one status
CountOfStudent(tbl, student_id, status) ==
    CountRows(tbl, {a \in BagToSet(tbl) : a.student_id = student_id /\ a.status = status})

CallGetStudentDashboard(p, user, query, exclusive) ==
    /\ MayStart(p, exclusive)
    /\ LET r == [op |-> "getStudentDashboard", user |-> user, query |-> query]
       IN  IF FalsyNum(UserIdOf(r)) THEN Reject(p, r, "User ID required")
           ELSE Enter(p, r, "findStudent")

SdFindStudent(p) ==
    /\ IsSd(p) /\ pc[p] = "findStudent"
    /\ \/ /\ PoolQuery(p)
          /\ LET found == SelectStudentsByUser(students, UserIdOf(req[p]))
             IN  IF found = {}
                 THEN /\ resp' = [resp EXCEPT ![p] =
                                     SendError(@, 404, "Student profile not found")]
                      /\ Goto(p, "done") /\ UNCHANGED loc
                 ELSE /\ \E st \in found : loc' = [loc EXCEPT ![p].student = st]
                      /\ Goto(p, "countAttendance") /\ UNCHANGED resp
       \/ Caught(p) /\ Faulted(p)
    /\ UNCHANGED <<dbvars, checkedOut, tx, req, pre, calls, headers, clientvars>>

\* the summary of the student found: PRESENT and ABSENT records, the percentage of
\* present over their sum (the number 0, written <<"0">>, when there is none)
Dashboard(st, atbl) ==
    LET present == CountOfStudent(atbl, st.id, "PRESENT")
        absent == CountOfStudent(atbl, st.id, "ABSENT")
        totalDays == present + absent
    IN  [name |-> st.name, id_code |-> st.student_id_code, class |-> st.class_name,
         roll_no |-> st.roll_no,
         percentage |-> IF totalDays > 0 THEN ToFixed1(present, totalDays) ELSE <<"0">>,
         total_present |-> present, total_days |-> totalDays]

SdCountAttendance(p) ==
    /\ IsSd(p) /\ pc[p] = "countAttendance"
    /\ \/ /\ resp' = [resp EXCEPT ![p] =
                        [@ EXCEPT !.sent = @ + 1, !.status = 200,
                                  !.dashboard = Dashboard(loc[p].student, attendance)]]
          /\ Goto(p, "done") /\ PoolQuery(p) /\ UNCHANGED loc
       \/ Caught(p) /\ Faulted(p)
    /\ UNCHANGED <<dbvars, checkedOut, tx, req, pre, calls, headers, clientvars>>

CallGetAttendanceCalendar(p, user, query, exclusive) ==
    /\ MayStart(p, exclusive)
    /\ LET r == [op |-> "getAttendanceCalendar", user |-> user, query |-> query]
       IN  IF FalsyNum(UserIdOf(r)) THEN Reject(p, r, "User ID required")
           ELSE Enter(p, r, "findStudent")

ScFindStudent(p) ==
    /\ IsSc(p) /\ pc[p] = "findStudent"
    /\ \/ /\ PoolQuery(p)
          /\ LET found == SelectStudentsByUser(students, UserIdOf(req[p]))
             IN  IF found = {}
                 THEN /\ resp' = [resp EXCEPT ![p] = SendError(@, 404, "Student not found")]
                      /\ Goto(p, "done") /\ UNCHANGED loc
                 ELSE /\ \E st \in found : loc' = [loc EXCEPT ![p].student = st]
                      /\ Goto(p, "query") /\ UNCHANGED resp
       \/ Caught(p) /\ Faulted(p)
    /\ UNCHANGED <<dbvars, checkedOut, tx, req, pre, calls, headers, clientvars>>

\* TO_CHAR(date, 'YYYY-MM-DD')
FormatDate(d) ==
    padStart(StringOf(d[1]), 4, "0") \o <<"-">> \o padStart(StringOf(d[2]), 2, "0")
        \o <<"-">> \o padStart(StringOf(d[3]), 2, "0")

\* d1 is a later date than d2
Later(d1, d2) ==
    \/ d1[1] > d2[1]
    \/ d1[1] = d2[1] /\ d1[2] > d2[2]
    \/ d1[1] = d2[1] /\ d1[2] = d2[2] /\ d1[3] > d2[3]

Color(status) == IF status = "PRESENT" THEN "green"
                 ELSE IF status = "ABSENT" THEN "red" ELSE "grey"

\* the rows of the student ORDER BY date DESC (rows of one date in any order), each
\* mapped to {date, status, color}
CalendarRows(atbl, student_id) ==
    LET hit == {a \in BagToSet(atbl) : a.student_id = student_id}
        n == CountRows(atbl, hit)
    IN  {[k \in 1..n |-> [date |-> FormatDate(q[k].date), status |-> q[k].status,
                          color |-> Color(q[k].status)]] :
            q \in {q \in [1..n -> hit] :
                     /\ \A a \in hit : Cardinality({k \in 1..n : q[k] = a}) = atbl[a]
                     /\ \A j, k \in 1..n : j < k => ~Later(q[k].date, q[j].date)}}

ScQuery(p) ==
    /\ IsSc(p) /\ pc[p] = "query"
    /\ \/ /\ \E rows \in CalendarRows(attendance, loc[p].student.id) :
                resp' = [resp EXCEPT ![p] = SendRows(@, rows)]
          /\ Goto(p, "done") /\ PoolQuery(p) /\ UNCHANGED loc
       \/ Caught(p) /\ Faulted(p)
    /\ UNCHANGED <<dbvars, checkedOut, tx, req, pre, calls, headers, clientvars>>

----------------------------------------------------------------------------
(* login: the credential issued to a user who presents the password                *)

IsLg(p) == req[p].op = "login"

\* bcrypt.compare(password, user.password_hash)
Compare(password, password_hash) == password_hash = Hash(password)

CallLogin(p, body, exclusive) ==
    /\ MayStart(p, exclusive)
    /\ LET r == [op |-> "login", body |-> body]
       IN  IF FalsyStr(body.email) \/ FalsyStr(body.password)
           THEN Reject(p, r, "Please provide email and password")
           ELSE Enter(p, r, "findUser")

LgFindUser(p) ==
    /\ IsLg(p) /\ pc[p] = "findUser"
    /\ \/ /\ PoolQuery(p)
          /\ LET found == SelectUsersByEmail(users, req[p].body.email)
             IN  IF found = {}
                 THEN /\ resp' = [resp EXCEPT ![p] = SendError(@, 400, "Invalid credentials")]
                      /\ Goto(p, "done") /\ UNCHANGED loc
                 ELSE /\ \E u \in found : loc' = [loc EXCEPT ![p].user = u]
                      /\ Goto(p, "compare") /\ UNCHANGED resp
       \/ Caught(p) /\ Faulted(p)
    /\ UNCHANGED <<dbvars, checkedOut, tx, req, pre, calls, headers, clientvars>>

\* the comparison with the mismatch branch removed
LgCompareAcceptsAnyPassword(p) ==
    /\ IsLg(p) /\ pc[p] = "compare"
    /\ Goto(p, "details") /\ UNCHANGED resp
    /\ UNCHANGED <<dbvars, checkedOut, tx, req, loc, io, pre, calls, headers, clientvars>>

LgCompare(p) ==
    /\ IsLg(p) /\ pc[p] = "compare"
    /\ IF Compare(req[p].body.password, loc[p].user.password_hash)
       THEN Goto(p, "details") /\ UNCHANGED resp
       ELSE /\ resp' = [resp EXCEPT ![p] = SendError(@, 400, "Invalid credentials")]
            /\ Goto(p, "done")
    /\ UNCHANGED <<dbvars, checkedOut, tx, req, loc, io, pre, calls, headers, clientvars>>

\* userDetails?.name of the profile row of the user's role ("" when there is no row)
DetailsName(u, stbl, ttbl) ==
    LET rows == IF u.role = "STUDENT" THEN {st.name : st \in SelectStudentsByUser(stbl, u.id)}
                ELSE {t.name : t \in {t \in ttbl : t.user_id = u.id}}
    IN  IF rows = {} THEN {""} ELSE rows

\* the profile query, jwt.sign({ id, role, name }) and the response
LgDetails(p) ==
    /\ IsLg(p) /\ pc[p] = "details"
    /\ \/ /\ \E name \in DetailsName(loc[p].user, students, teachers) :
               LET payload == [id |-> loc[p].user.id, role |-> loc[p].user.role,
                               name |-> name]
               IN  resp' = [resp EXCEPT ![p] =
                              [@ EXCEPT !.sent = @ + 1, !.status = 200,
                                        !.token = Sign(payload), !.user = payload]]
          /\ Goto(p, "done") /\ PoolQuery(p) /\ UNCHANGED loc
       \/ Caught(p) /\ Faulted(p)
    /\ UNCHANGED <<dbvars, checkedOut, tx, req, pre, calls, headers, clientvars>>

----------------------------------------------------------------------------
(* The authentication gate and the routers: which handler a request reaches        *)

\* the gate verifies the credential: a token signed by login and not expired
Verify(token) == token.kind = "jwt"

\* the gate rejects the request before the handler: 401, nothing else happens
Unauthorized(p, r, exclusive) ==
    /\ MayStart(p, exclusive)
    /\ req' = [req EXCEPT ![p] = r]
    /\ pc' = [pc EXCEPT ![p] = "done"]
    /\ loc' = [loc EXCEPT ![p] = NoLoc]
    /\ resp' = [resp EXCEPT ![p] = SendError(NoResp, 401, "Unauthorized")]
    /\ io' = [io EXCEPT ![p] = NoIo]
    /\ pre' = [pre EXCEPT ![p] = Tables]
    /\ calls' = calls + 1
    /\ UNCHANGED <<dbvars, checkedOut, tx>>

\* the request arrives with its Authorization header
Bearer(p, token) == headers' = [headers EXCEPT ![p] = token] /\ UNCHANGED clientvars

\* router.get('/dashboard', auth, getDashboardStats)
TeacherDashboardRoute(p, token, exclusive) ==
    /\ Bearer(p, token)
    /\ IF Verify(token) THEN CallGetDashboardStats(p, exclusive)
       ELSE Unauthorized(p, [op |-> "getDashboardStats"], exclusive)

\* router.post('/students/create', auth, createStudent)
TeacherStudentsCreateRoute(p, token, body, exclusive) ==
    /\ Bearer(p, token)
    /\ IF Verify(token) THEN CallCreateStudent(p, body, exclusive)
       ELSE Unauthorized(p, [op |-> "createStudent", body |-> body], exclusive)

\* router.get('/attendance-sheet', auth, getAttendanceSheet)
TeacherAttendanceSheetRoute(p, token, query, exclusive) ==
    /\ Bearer(p, token)
    /\ IF Verify(token) THEN CallGetAttendanceSheet(p, query, exclusive)
       ELSE Unauthorized(p, [op |-> "getAttendanceSheet", query |-> query], exclusive)

\* router.post('/attendance/bulk', auth, markAttendanceBulk)
TeacherAttendanceBulkRoute(p, token, body, exclusive) ==
    /\ Bearer(p, token)
    /\ IF Verify(token) THEN CallMarkAttendanceBulk(p, body, exclusive)
       ELSE Unauthorized(p, [op |-> "markAttendanceBulk", body |-> body], exclusive)

\* router.get('/low-attendance', auth, getLowAttendanceList)
TeacherLowAttendanceRoute(p, token, exclusive) ==
    /\ Bearer(p, token)
    /\ IF Verify(token) THEN CallGetLowAttendanceList(p, exclusive)
       ELSE Unauthorized(p, [op |-> "getLowAttendanceList"], exclusive)

\* router.get('/monthly-report', auth, getMonthlyAttendanceReport)
TeacherMonthlyReportRoute(p, token, query, exclusive) ==
    /\ Bearer(p, token)
    /\ IF Verify(token) THEN CallGetMonthlyAttendanceReport(p, query, exclusive)
       ELSE Unauthorized(p, [op |-> "getMonthlyAttendanceReport", query |-> query],
                         exclusive)

\* the dashboard route registered without the gate: req.user is never set
StudentDashboardRouteWithoutAuth(p, token, query, exclusive) ==
    Bearer(p, token) /\ CallGetStudentDashboard(p, NoUser, query, exclusive)

\* router.get('/dashboard', auth, getStudentDashboard): the gate leaves the payload
\* of the credential in req.user
StudentDashboardRoute(p, token, query, exclusive) ==
    /\ Bearer(p, token)
    /\ IF Verify(token) THEN CallGetStudentDashboard(p, token.payload, query, exclusive)
       ELSE Unauthorized(p, [op |-> "getStudentDashboard", user |-> NoUser,
                             query |-> query], exclusive)

\* router.get('/calendar', auth, getAttendanceCalendar)
StudentCalendarRoute(p, token, query, exclusive) ==
    /\ Bearer(p, token)
    /\ IF Verify(token) THEN CallGetAttendanceCalendar(p, token.payload, query, exclusive)
       ELSE Unauthorized(p, [op |-> "getAttendanceCalendar", user |-> NoUser,
                             query |-> query], exclusive)

\* router.post('/login', login)
AuthLoginRoute(p, token, body, exclusive) ==
    Bearer(p, token) /\ CallLogin(p, body, exclusive)

\* router.post('/register', register)
AuthRegisterRoute(p, token, body, exclusive) ==
    Bearer(p, token) /\ CallRegister(p, body, exclusive)

----------------------------------------------------------------------------
(* reset-data: the maintenance script, run while no request is in flight          *)

\* one transaction: DELETE FROM attendance, DELETE FROM students, DELETE FROM users
\* WHERE role = 'STUDENT', commit (a failure rolls back and changes nothing)
resetData ==
    /\ \A p \in Procs : ~InFlight(p)
    /\ \/ /\ attendance' = EmptyBag
          /\ students' = {}
          /\ users' = {u \in users : u.role # "STUDENT"}
       \/ UNCHANGED <<attendance, students, users>>
    /\ UNCHANGED <<teachers, studentSeq, checkedOut, tx, pc, req, loc, resp, io, pre, calls,
                   headers, clientvars>>

----------------------------------------------------------------------------
(* The React client: the axios instance with its request interceptor, AuthContext  *)
(* (login, logout, the effect that restores the session on page load) and the      *)
(* attendance tab of TeacherDashboard. A call of the api is in flight from the     *)
(* request to the moment its promise settles; the server's answer is computed      *)
(* from the tables when it arrives.                                                *)

\* JSON.stringify(user) and JSON.parse of it: the stored string lists the values of
\* the user's fields; the item is <<>> while absent
Stringify(u) == <<u.id, u.role, u.name>>
Parse(str) == [id |-> str[1], role |-> str[2], name |-> str[3]]

NoStorage == [token |-> NoToken, user |-> <<>>]
NoView == [activeTab |-> "dashboard", date |-> Today, selectedClass |-> "All",
           students |-> <<>>]
NoWire == [api |-> "", authorization |-> NoToken, loggedOut |-> FALSE, date |-> NoDate,
           records |-> <<>>]

ClientInit ==
    /\ localStorage = NoStorage
    /\ authUser = NoUser
    /\ view = NoView
    /\ inflight = {}
    /\ wire = NoWire
    /\ loggedOut = FALSE

\* api.interceptors.request.use: the Authorization header is the stored token, and
\* there is none without a stored token
Authorization(storage) == storage.token

\* a request leaving through the axios instance
Request(api, date, records) ==
    wire' = [api |-> api, authorization |-> Authorization(localStorage),
             loggedOut |-> loggedOut, date |-> date, records |-> records]

\* an awaited api call
Call(api, email, password, date, class_name) ==
    [api |-> api, email |-> email, password |-> password, date |-> date,
     class_name |-> class_name]

\* AuthProvider mounts on page load: the state starts empty, the calls of the page
\* left behind never settle, and the effect restores the user when both entries are
\* stored
PageLoad ==
    /\ authUser' = IF localStorage.user # <<>> /\ localStorage.token # NoToken
                   THEN Parse(localStorage.user) ELSE NoUser
    /\ view' = NoView
    /\ inflight' = {}
    /\ UNCHANGED <<servervars, localStorage, wire, loggedOut>>

\* login(email, password): api.post('/auth/login', { email, password })
login(email, password) ==
    /\ Cardinality(inflight) < MaxInFlight
    /\ inflight' = inflight \cup {Call("login", email, password, NoDate, "")}
    /\ Request("login", NoDate, <<>>)
    /\ UNCHANGED <<servervars, localStorage, authUser, view, loggedOut>>

\* the answer 200 { token, user } of a login whose credentials match: both entries
\* are stored, then setUser(user)
loginResolved(c) ==
    /\ c \in inflight /\ c.api = "login"
    /\ \E u \in SelectUsersByEmail(users, c.email) :
          /\ Compare(c.password, u.password_hash)
          /\ \E name \in DetailsName(u, students, teachers) :
                LET payload == [id |-> u.id, role |-> u.role, name |-> name]
                IN  /\ localStorage' = [token |-> Sign(payload), user |-> Stringify(payload)]
                    /\ authUser' = payload
    /\ loggedOut' = FALSE
    /\ inflight' = inflight \ {c}
    /\ UNCHANGED <<servervars, view, wire>>

\* a login answered 400 or 500, or not answered: catch returns { success: false }
loginRejected(c) ==
    /\ c \in inflight /\ c.api = "login"
    /\ inflight' = inflight \ {c}
    /\ UNCHANGED <<servervars, localStorage, authUser, view, wire, loggedOut>>

\* a logout that removes the user entry only
logoutKeepingToken ==
    /\ localStorage' = [localStorage EXCEPT !.user = <<>>]
    /\ authUser' = NoUser
    /\ loggedOut' = TRUE
    /\ UNCHANGED <<servervars, view, inflight, wire>>

\* logout(): removeItem('token'), removeItem('user'), setUser(null)
logout ==
    /\ localStorage' = NoStorage
    /\ authUser' = NoUser
    /\ loggedOut' = TRUE
    /\ UNCHANGED <<servervars, view, inflight, wire>>

\* fetchAttendanceSheet() of a render whose date and selectedClass are those of v:
\* api.get(`/teacher/attendance-sheet?date=${date}&class_name=${selectedClass}`)
fetchAttendanceSheet(v) ==
    /\ inflight' = inflight \cup {Call("sheet", "", "", v.date, v.selectedClass)}
    /\ Request("sheet", v.date, <<>>)

\* useEffect(..., [date, activeTab, selectedClass]): after a render that changed one
\* of them, the sheet is fetched when the attendance tab is open
AttendanceEffect(v) ==
    IF v.activeTab = "attendance" THEN fetchAttendanceSheet(v)
    ELSE UNCHANGED <<inflight, wire>>

setActiveTab(tab) ==
    /\ tab # view.activeTab
    /\ Cardinality(inflight) < MaxInFlight
    /\ view' = [view EXCEPT !.activeTab = tab]
    /\ AttendanceEffect(view')
    /\ UNCHANGED <<servervars, localStorage, authUser, loggedOut>>

setDate(date) ==
    /\ date # view.date
    /\ Cardinality(inflight) < MaxInFlight
    /\ view' = [view EXCEPT !.date = date]
    /\ AttendanceEffect(view')
    /\ UNCHANGED <<servervars, localStorage, authUser, loggedOut>>

setSelectedClass(class_name) ==
    /\ class_name # view.selectedClass
    /\ Cardinality(inflight) < MaxInFlight
    /\ view' = [view EXCEPT !.selectedClass = class_name]
    /\ AttendanceEffect(view')
    /\ UNCHANGED <<servervars, localStorage, authUser, loggedOut>>

\* the rows of a response as the view holds them; origin is the date the status was
\* fetched for or set under
SheetOf(rows, date) ==
    [k \in DOMAIN rows |-> [student_id |-> rows[k].student_id,
                            class_name |-> rows[k].class_name,
                            status |-> rows[k].status, origin |-> date]]

\* the answer of an attendance-sheet call: setStudents(res.data), whatever the date
\* and class selected by now
sheetResolved(c) ==
    /\ c \in inflight /\ c.api = "sheet"
    /\ \E rows \in Ordered(SheetRows(InClass(students, c.class_name), attendance, c.date)) :
          view' = [view EXCEPT !.students = SheetOf(rows, c.date)]
    /\ inflight' = inflight \ {c}
    /\ UNCHANGED <<servervars, localStorage, authUser, wire, loggedOut>>

\* a failed attendance-sheet call: a toast, the list stays
sheetRejected(c) ==
    /\ c \in inflight /\ c.api = "sheet"
    /\ inflight' = inflight \ {c}
    /\ UNCHANGED <<servervars, localStorage, authUser, view, wire, loggedOut>>

\* markAttendance(studentId, status): the row of the student gets the status
markAttendance(studentId, status) ==
    /\ \E k \in DOMAIN view.students : view.students[k].student_id = studentId
    /\ view' = [view EXCEPT !.students =
                  [k \in DOMAIN @ |-> IF @[k].student_id = studentId
                                      THEN [@[k] EXCEPT !.status = status,
                                                        !.origin = view.date]
                                      ELSE @[k]]]
    /\ UNCHANGED <<servervars, localStorage, authUser, inflight, wire, loggedOut>>

RECURSIVE Marked(_)
\* students.filter(s => s.status)
Marked(rows) ==
    IF rows = <<>> THEN <<>>
    ELSE IF Head(rows).status # "" THEN <<Head(rows)>> \o Marked(Tail(rows))
    ELSE Marked(Tail(rows))

\* the rows markAttendanceBulk writes for a posted body
Posted(date, records) ==
    [k \in DOMAIN records |-> [student_id |-> records[k].student_id, date |-> date,
                               status |-> records[k].status]]

\* saveAttendance(): api.post('/teacher/attendance/bulk', { date, records }) with the
\* marked rows of the list and the date selected now; the server commits the batch
\* or fails (the fetchStats() that follows changes the stats only)
saveAttendance ==
    /\ Request("bulk", view.date, Marked(view.students))
    /\ \/ attendance' = UpsertAll(attendance, Posted(view.date, Marked(view.students)))
       \/ UNCHANGED attendance
    /\ UNCHANGED <<users, students, teachers, studentSeq, checkedOut, tx, pc, req, loc,
                   resp, io, pre, calls, headers, localStorage, authUser, view, inflight,
                   loggedOut>>

----------------------------------------------------------------------------
(* Initial states: the schema of database.sql, the admin of create-admin.js and   *)
(* zero, one or two students created through createStudent                        *)

Admin == [id |-> 1, email |-> AdminEmail, password_hash |-> Hash("admin"), role |-> "TEACHER"]
AdminTeacher == [id |-> 1, user_id |-> 1, name |-> "Admin Teacher", subject |-> "Administration"]
\* the credential login issues to the admin teacher
AdminToken == Sign([id |-> Admin.id, role |-> Admin.role, name |-> AdminTeacher.name])

SeedEmail(k) == IF k = 1 THEN "a@school.com" ELSE "b@school.com"
SeedUser(k) == [id |-> k + 1, email |-> SeedEmail(k), password_hash |-> Hash("pw"),
                role |-> "STUDENT"]
SeedStudent(k) == [id |-> k, user_id |-> k + 1, name |-> "Jane", class_name |-> "10-A",
                   roll_no |-> k, student_id_code |-> StudentIdCode(k)]

InitDb(seeds) ==
    /\ \E n \in seeds :
          /\ users = {Admin} \cup {SeedUser(k) : k \in 1..n}
          /\ students = {SeedStudent(k) : k \in 1..n}
          /\ studentSeq = n
    /\ teachers = {AdminTeacher}
    /\ attendance = EmptyBag
    /\ checkedOut = 0
    /\ tx = [p \in Procs |-> EmptyTx]
    /\ pc = [p \in Procs |-> "idle"]
    /\ req = [p \in Procs |-> NoReq]
    /\ loc = [p \in Procs |-> NoLoc]
    /\ resp = [p \in Procs |-> NoResp]
    /\ io = [p \in Procs |-> NoIo]
    /\ pre = [p \in Procs |-> NoTables]
    /\ calls = 0
    /\ headers = [p \in Procs |-> NoToken]
    /\ ClientInit

----------------------------------------------------------------------------
(* SpecBulk: markAttendanceBulk requests, one at a time, on two students; the   *)
(* entries name a student with a valid status, an unknown student (id 9), an     *)
(* invalid status or no status                                                   *)

InitBulk == InitDb({2})

BulkEntries ==
    {[student_id |-> 1, status |-> "PRESENT"], [student_id |-> 1, status |-> "ABSENT"],
     [student_id |-> 2, status |-> "PRESENT"],
     [student_id |-> 9, status |-> "PRESENT"],
     [student_id |-> 2, status |-> "LATE"],
     [student_id |-> 2, status |-> ""]}

MarkAttendanceBulk(p) ==
    MbConnect(p) \/ MbBegin(p) \/ MbUpsert(p) \/ MbCommit(p) \/ MbCatch(p)

NextBulk ==
    \/ \E body \in MarkBodies(BulkEntries) : TeacherAttendanceBulkRoute(1, AdminToken, body, TRUE)
    \/ MarkAttendanceBulk(1)
    \/ EndRequest(1)

SpecBulk == InitBulk /\ [][NextBulk]_vars

----------------------------------------------------------------------------
(* SpecBulkConc: two markAttendanceBulk calls whose statements interleave: the    *)
(* first marks PRESENT on one date, the second ABSENT on the same or another      *)
(* date; the batches name the two students in either order, one student, or a     *)
(* student that does not exist                                                    *)

InitBulkConc == InitDb({2})

ConcBatches(status) ==
    LET e(k) == [student_id |-> k, status |-> status]
    IN  {<<e(1), e(2)>>, <<e(2), e(1)>>, <<e(1)>>, <<e(1), e(9)>>}

ConcMarkBodies(p) ==
    [date : IF p = 1 THEN {Today} ELSE Dates,
     records : {ArrayOf(b) : b \in ConcBatches(IF p = 1 THEN "PRESENT" ELSE "ABSENT")}]

NextBulkConc ==
    \E p \in Procs :
        \/ \E body \in ConcMarkBodies(p) :
              TeacherAttendanceBulkRoute(p, AdminToken, body, FALSE)
        \/ MarkAttendanceBulk(p)

SpecBulkConc == InitBulkConc /\ [][NextBulkConc]_vars

----------------------------------------------------------------------------
(* SpecResubmit: markAttendanceBulk requests on one student, with entries that   *)
(* carry no student_id and with bodies posted twice in a row                     *)

InitResubmit == InitDb({1})

ResubmitEntries ==
    [student_id : {1}, status : {"PRESENT", "ABSENT"}]
        \cup {[student_id |-> NullId, status |-> "PRESENT"],
              [student_id |-> 9, status |-> "PRESENT"]}

NextResubmit ==
    \/ \E body \in MarkBodies(ResubmitEntries) : TeacherAttendanceBulkRoute(1, AdminToken, body, TRUE)
    \/ ResubmitMarkAttendanceBulk(1)
    \/ MarkAttendanceBulk(1)
    \/ EndRequest(1)

SpecResubmit == InitResubmit /\ [][NextResubmit]_vars

----------------------------------------------------------------------------
(* SpecCreate: createStudent requests, one at a time, on zero to two students    *)

InitCreate == InitDb({0, 1, 2})

CreateStudent(p) ==
    \/ CsConnect(p) \/ CsBegin(p) \/ CsCheckEmail(p) \/ CsCheckRoll(p)
    \/ CsRollbackConflict(p) \/ CsInsertUser(p) \/ CsCount(p) \/ CsInsertStudent(p)
    \/ CsCommit(p) \/ CsCatch(p)

NextCreate ==
    \/ \E body \in CreateBodies : TeacherStudentsCreateRoute(1, AdminToken, body, TRUE)
    \/ CreateStudent(1)
    \/ EndRequest(1)

SpecCreate == InitCreate /\ [][NextCreate]_vars

----------------------------------------------------------------------------
(* SpecConc: createStudent and register requests of two clients, interleaved at  *)
(* every await                                                                   *)

InitConc == InitDb({0, 1})

ConcCreateBodies ==
    [name : {"Jane"}, email : {"b@school.com", "c@school.com"}, password : {"pw"},
     class_name : {"10-A"}, roll_no : Rolls]

ConcRegisterBodies ==
    [name : {"Jane"}, email : {"c@school.com"}, password : {"pw"}, role : {"STUDENT"}]

Register(p) == RgCheckEmail(p) \/ RgInsertUser(p) \/ RgInsertStudent(p) \/ RgInsertTeacher(p)

NextConc ==
    \E p \in Procs :
        \/ \E body \in ConcCreateBodies : TeacherStudentsCreateRoute(p, AdminToken, body, FALSE)
        \/ CreateStudent(p)
        \/ \E body \in ConcRegisterBodies : AuthRegisterRoute(p, NoToken, body, FALSE)
        \/ RgCheckEmail(p) \/ RgInsertUser(p) \/ RgInsertStudent(p)
        \/ EndRequest(p)

SpecConc == InitConc /\ [][NextConc]_vars

----------------------------------------------------------------------------
(* Spec: the six endpoints of the teacher router, one request at a time          *)

Init == InitDb({0, 2})

TeacherCreateBodies ==
    {b \in CreateBodies : b.email \in {"a@school.com", "c@school.com", ""}
                          /\ b.class_name \in {"10-A", ""}}

TeacherEntries ==
    {[student_id |-> 1, status |-> "PRESENT"], [student_id |-> 2, status |-> "ABSENT"],
     [student_id |-> 9, status |-> "PRESENT"]}

SheetQueries == [date : Dates \cup {NoDate}, class_name : {"", "All", "10-A"}]

MonthlyQueries == [month : {0, 2}, year : {0, 2026}, class_name : {"", "10-A"}]

Next ==
    \/ \E body \in TeacherCreateBodies : TeacherStudentsCreateRoute(1, AdminToken, body, TRUE)
    \/ CreateStudent(1)
    \/ \E body \in MarkBodies(TeacherEntries) : TeacherAttendanceBulkRoute(1, AdminToken, body, TRUE)
    \/ MarkAttendanceBulk(1)
    \/ \E query \in SheetQueries : TeacherAttendanceSheetRoute(1, AdminToken, query, TRUE)
    \/ GsQuery(1)
    \/ \E query \in MonthlyQueries : TeacherMonthlyReportRoute(1, AdminToken, query, TRUE)
    \/ MrQuery(1)
    \/ TeacherLowAttendanceRoute(1, AdminToken, TRUE)
    \/ LaQuery(1)
    \/ TeacherDashboardRoute(1, AdminToken, TRUE)
    \/ DsCountStudents(1) \/ DsCountAttendance(1)
    \/ EndRequest(1)

Spec == Init /\ [][Next]_vars

----------------------------------------------------------------------------
(* SpecAuth: every route of the three routers, requested with no credential, with  *)
(* a token that does not verify, and with the tokens of the teacher and of a       *)
(* student, one request at a time                                                  *)

InitAuth == InitDb({1})

\* the credential login issues to the student of the initial database
StudentToken == Sign([id |-> SeedUser(1).id, role |-> "STUDENT", name |-> SeedStudent(1).name])

AuthTokens == {NoToken, Forged(AdminToken.payload), AdminToken, StudentToken}

AuthCreateBodies ==
    {[name |-> "Jane", email |-> "c@school.com", password |-> "pw", class_name |-> "10-A",
      roll_no |-> 2]}

AuthEntries == {[student_id |-> 1, status |-> "PRESENT"]}

AuthSheetQueries == [date : {<<2026, 2, 13>>, NoDate}, class_name : {"10-A"}]

AuthMonthlyQueries == [month : {2}, year : {0, 2026}, class_name : {"All"}]

\* the user_id query parameter of the student routes: absent, or the id of a student
StudentQueries == [user_id : {0, SeedUser(1).id}]

LoginBodies == [email : {AdminEmail, "a@school.com", "z@school.com"}, password : {"pw", ""}]

RegisterBodies ==
    [name : {"Joe"}, email : {"a@school.com", "d@school.com"}, password : {"pw"},
     role : {"STUDENT", "TEACHER"}]

StudentDashboard(p) == SdFindStudent(p) \/ SdCountAttendance(p)
AttendanceCalendar(p) == ScFindStudent(p) \/ ScQuery(p)
Login(p) == LgFindUser(p) \/ LgCompare(p) \/ LgDetails(p)

NextAuth ==
    \/ \E token \in AuthTokens :
          \/ TeacherDashboardRoute(1, token, TRUE)
          \/ \E body \in AuthCreateBodies : TeacherStudentsCreateRoute(1, token, body, TRUE)
          \/ \E query \in AuthSheetQueries : TeacherAttendanceSheetRoute(1, token, query, TRUE)
          \/ \E body \in MarkBodies(AuthEntries) :
                TeacherAttendanceBulkRoute(1, token, body, TRUE)
          \/ TeacherLowAttendanceRoute(1, token, TRUE)
          \/ \E query \in AuthMonthlyQueries :
                TeacherMonthlyReportRoute(1, token, query, TRUE)
          \/ \E query \in StudentQueries : StudentDashboardRoute(1, token, query, TRUE)
          \/ \E query \in StudentQueries : StudentCalendarRoute(1, token, query, TRUE)
          \/ \E body \in LoginBodies : AuthLoginRoute(1, token, body, TRUE)
          \/ \E body \in RegisterBodies : AuthRegisterRoute(1, token, body, TRUE)
    \/ CreateStudent(1) \/ MarkAttendanceBulk(1)
    \/ GsQuery(1) \/ MrQuery(1) \/ LaQuery(1)
    \/ DsCountStudents(1) \/ DsCountAttendance(1)
    \/ StudentDashboard(1) \/ AttendanceCalendar(1)
    \/ Login(1) \/ Register(1)
    \/ EndRequest(1)

SpecAuth == InitAuth /\ [][NextAuth]_vars

----------------------------------------------------------------------------
(* SpecReport: the four reading endpoints of the teacher router over the           *)
(* attendance histories that markAttendanceBulk calls can leave: three students    *)
(* created by createStudent (classes 10-B and 10-A), one created by register (no   *)
(* class, roll or code), up to four records in February for the first student and  *)
(* one in March for the second                                                     *)

ReportDates == {<<2026, 2, 10>>, <<2026, 2, 11>>, <<2026, 2, 12>>, <<2026, 2, 13>>}

ReportEmail(k) == CASE k = 1 -> "ann@school.com" [] k = 2 -> "bob@school.com"
                    [] k = 3 -> "cid@school.com" [] OTHER -> "dee@school.com"

ReportUsers ==
    {Admin} \cup {[id |-> 10 + k, email |-> ReportEmail(k), password_hash |-> Hash("pw"),
                  role |-> "STUDENT"] : k \in 1..4}

ReportStudents ==
    {[id |-> 1, user_id |-> 11, name |-> "Ann", class_name |-> "10-B", roll_no |-> 1,
      student_id_code |-> StudentIdCode(1)],
     [id |-> 2, user_id |-> 12, name |-> "Bob", class_name |-> "10-A", roll_no |-> 2,
      student_id_code |-> StudentIdCode(2)],
     [id |-> 3, user_id |-> 13, name |-> "Cid", class_name |-> "10-A", roll_no |-> 1,
      student_id_code |-> StudentIdCode(3)],
     [id |-> 4, user_id |-> 14, name |-> "Dee", class_name |-> "", roll_no |-> 0,
      student_id_code |-> NoCode]}

\* the table that holds, for each student and date of h, the status h gives ("" for
\* no record)
HistoryTable(h) ==
    SetToBag({[student_id |-> sd[1], date |-> sd[2], status |-> h[sd]] :
                 sd \in {sd \in DOMAIN h : h[sd] # ""}})

ReportHistories ==
    [({1} \X ReportDates) \cup {<<2, <<2026, 3, 2>>>>} -> Statuses \cup {""}]

InitReport ==
    /\ users = ReportUsers
    /\ students = ReportStudents
    /\ studentSeq = 4
    /\ teachers = {AdminTeacher}
    /\ \E h \in ReportHistories : attendance = HistoryTable(h)
    /\ checkedOut = 0
    /\ tx = [p \in Procs |-> EmptyTx]
    /\ pc = [p \in Procs |-> "idle"]
    /\ req = [p \in Procs |-> NoReq]
    /\ loc = [p \in Procs |-> NoLoc]
    /\ resp = [p \in Procs |-> NoResp]
    /\ io = [p \in Procs |-> NoIo]
    /\ pre = [p \in Procs |-> NoTables]
    /\ calls = 0
    /\ headers = [p \in Procs |-> NoToken]
    /\ ClientInit

ReportSheetQueries == [date : {Today, <<2026, 3, 2>>}, class_name : {"", "All", "10-A", "10-B"}]

ReportMonthlyQueries == [month : {2, 3}, year : {2026}, class_name : {"", "All", "10-A"}]

NextReport ==
    \/ \E query \in ReportSheetQueries :
          TeacherAttendanceSheetRoute(1, AdminToken, query, TRUE)
    \/ GsQuery(1)
    \/ \E query \in ReportMonthlyQueries :
          TeacherMonthlyReportRoute(1, AdminToken, query, TRUE)
    \/ MrQuery(1)
    \/ TeacherLowAttendanceRoute(1, AdminToken, TRUE)
    \/ LaQuery(1)
    \/ TeacherDashboardRoute(1, AdminToken, TRUE)
    \/ DsCountStudents(1) \/ DsCountAttendance(1)
    \/ EndRequest(1)

SpecReport == InitReport /\ [][NextReport]_vars

----------------------------------------------------------------------------
(* SpecStudent: the two endpoints of the student router, requested by two students *)
(* and by the teacher with any user_id parameter, next to the defaulter list of    *)
(* the teacher router, over the histories of two students                          *)

StudentHistories ==
    [({1} \X {<<2026, 2, 12>>, <<2026, 2, 13>>}) \cup {<<2, <<2026, 2, 13>>>>}
        -> Statuses \cup {""}]

InitStudent ==
    /\ users = ReportUsers
    /\ students = ReportStudents
    /\ studentSeq = 4
    /\ teachers = {AdminTeacher}
    /\ \E h \in StudentHistories : attendance = HistoryTable(h)
    /\ checkedOut = 0
    /\ tx = [p \in Procs |-> EmptyTx]
    /\ pc = [p \in Procs |-> "idle"]
    /\ req = [p \in Procs |-> NoReq]
    /\ loc = [p \in Procs |-> NoLoc]
    /\ resp = [p \in Procs |-> NoResp]
    /\ io = [p \in Procs |-> NoIo]
    /\ pre = [p \in Procs |-> NoTables]
    /\ calls = 0
    /\ headers = [p \in Procs |-> NoToken]
    /\ ClientInit

\* the credentials login issues to the first two students, and the teacher's
TokenOf(st) == Sign([id |-> st.user_id, role |-> "STUDENT", name |-> st.name])
StudentTokens == {TokenOf(st) : st \in {st \in ReportStudents : st.id \in {1, 2}}}
                     \cup {AdminToken}

\* the user_id query parameter: absent, or the user of the first or second student
StudentViewQueries == [user_id : {0, 11, 12}]

NextStudent ==
    \/ \E token \in StudentTokens, query \in StudentViewQueries :
          \/ StudentDashboardRoute(2, token, query, TRUE)
          \/ StudentCalendarRoute(2, token, query, TRUE)
    \/ StudentDashboard(2) \/ AttendanceCalendar(2)
    \/ TeacherLowAttendanceRoute(1, AdminToken, TRUE)
    \/ LaQuery(1)
    \/ \E p \in Procs : EndRequest(p)

SpecStudent == InitStudent /\ [][NextStudent]_vars

----------------------------------------------------------------------------
(* SpecDefaulters: the defaulter list over one student's history given by its      *)
(* counts: total records, of which present are PRESENT and the rest ABSENT         *)

\* the totals tried: short histories, and the shortest one with a ratio between
\* 74.95 and 75
DayCounts == {1, 2, 3, 4, 8, 503}

\* the k-th school day (months of 28 days)
DateOf(k) == <<2025 + ((k - 1) \div 336), (((k - 1) \div 28) % 12) + 1, ((k - 1) % 28) + 1>>

CountedHistory(present, total) ==
    SetToBag({[student_id |-> 1, date |-> DateOf(k),
               status |-> IF k <= present THEN "PRESENT" ELSE "ABSENT"] : k \in 1..total})

InitDefaulters ==
    /\ users = ReportUsers
    /\ students = {st \in ReportStudents : st.id = 1}
    /\ studentSeq = 1
    /\ teachers = {AdminTeacher}
    /\ \E total \in DayCounts : \E present \in 0..total :
          attendance = CountedHistory(present, total)
    /\ checkedOut = 0
    /\ tx = [p \in Procs |-> EmptyTx]
    /\ pc = [p \in Procs |-> "idle"]
    /\ req = [p \in Procs |-> NoReq]
    /\ loc = [p \in Procs |-> NoLoc]
    /\ resp = [p \in Procs |-> NoResp]
    /\ io = [p \in Procs |-> NoIo]
    /\ pre = [p \in Procs |-> NoTables]
    /\ calls = 0
    /\ headers = [p \in Procs |-> NoToken]
    /\ ClientInit

NextDefaulters ==
    \/ TeacherLowAttendanceRoute(1, AdminToken, TRUE)
    \/ LaQuery(1)

SpecDefaulters == InitDefaulters /\ [][NextDefaulters]_vars

----------------------------------------------------------------------------
(* SpecStats: the dashboard of the teacher after createStudent, register,         *)
(* markAttendanceBulk (entries with and without student_id) and data resets       *)

InitStats == InitDb({0, 1})

StatsEntries ==
    {[student_id |-> 1, status |-> "PRESENT"], [student_id |-> NullId, status |-> "PRESENT"],
     [student_id |-> NullId, status |-> "ABSENT"]}

StatsRegisterBodies ==
    {[name |-> "Joe", email |-> "d@school.com", password |-> "pw", role |-> "STUDENT"]}

NextStats ==
    \/ \E body \in AuthCreateBodies : TeacherStudentsCreateRoute(1, AdminToken, body, TRUE)
    \/ CreateStudent(1)
    \/ \E body \in StatsRegisterBodies : AuthRegisterRoute(1, NoToken, body, TRUE)
    \/ RgCheckEmail(1) \/ RgInsertUser(1) \/ RgInsertStudent(1)
    \/ \E body \in MarkBodies(StatsEntries) : TeacherAttendanceBulkRoute(1, AdminToken, body, TRUE)
    \/ MarkAttendanceBulk(1)
    \/ TeacherDashboardRoute(1, AdminToken, TRUE)
    \/ DsCountStudents(1) \/ DsCountAttendance(1)
    \/ resetData
    \/ EndRequest(1)

SpecStats == InitStats /\ [][NextStats]_vars

----------------------------------------------------------------------------
(* SpecSession: page loads, logins with right and wrong passwords, logouts and    *)
(* api requests of one browser, in any order                                      *)

InitSession == InitDb({1})

Credentials == [email : {AdminEmail, "a@school.com"}, password : {"admin", "pw"}]

\* the calls that can be awaiting their answer
LoginCalls == {Call("login", c.email, c.password, NoDate, "") : c \in Credentials}
SheetCalls == {Call("sheet", "", "", date, class_name) :
                  date \in Dates, class_name \in {"All", "10-A"}}

NextSession ==
    \/ PageLoad
    \/ \E c \in Credentials : login(c.email, c.password)
    \/ \E c \in LoginCalls : loginResolved(c)
    \/ \E c \in LoginCalls : loginRejected(c)
    \/ logout
    \/ \E tab \in {"dashboard", "attendance"} : setActiveTab(tab)
    \/ \E c \in SheetCalls : sheetResolved(c)
    \/ \E c \in SheetCalls : sheetRejected(c)

SpecSession == InitSession /\ [][NextSession]_vars

----------------------------------------------------------------------------
(* SpecView: the attendance tab of the teacher: date and class changes, sheet     *)
(* responses arriving in any order, marks and saves, on one student               *)

InitView == InitDb({1})

NextView ==
    \/ \E tab \in {"dashboard", "attendance"} : setActiveTab(tab)
    \/ \E date \in Dates : setDate(date)
    \/ \E class_name \in {"All", "10-A"} : setSelectedClass(class_name)
    \/ \E c \in SheetCalls : sheetResolved(c)
    \/ \E c \in SheetCalls : sheetRejected(c)
    \/ \E status \in {"PRESENT", "ABSENT"} : markAttendance(1, status)
    \/ saveAttendance

SpecView == InitView /\ [][NextView]_vars

----------------------------------------------------------------------------
(* Properties of markAttendanceBulk *)

Items(p) == req[p].body.records.items
ListedIds(p) == {Items(p)[k].student_id : k \in 1..Len(Items(p))}
MbDone(p) == IsMb(p) /\ pc[p] = "done"

\* the status of the last entry of the batch for a student
LastStatus(items, student_id) ==
    items[Max({k \in 1..Len(items) : items[k].student_id = student_id})].status

\* the table holds a row of that key and status
Holds(tbl, student_id, date, status) ==
    [student_id |-> student_id, date |-> date, status |-> status] \in BagToSet(tbl)

\* C1: markAttendanceBulk is all-or-nothing. A call with an entry whose upsert fails
\* (unknown student, invalid or missing status) is not answered 200; a call that is not
\* answered 200 (an entry failed, or a storage step failed) leaves the attendance table
\* exactly as it was when the call was made; a call answered 200 has persisted every
\* entry.
C1_AllOrNothing ==
    \A p \in Procs : MbDone(p) =>
        LET items == Items(p)
            date == req[p].body.date
            entryFails == \E k \in 1..Len(items) :
                AttendanceInsertViolates(pre[p].students, items[k].student_id, items[k].status)
        IN  /\ entryFails => resp[p].status # 200
            /\ resp[p].status # 200 => attendance = pre[p].attendance
            /\ resp[p].status = 200 =>
                  \A k \in 1..Len(items) :
                      Holds(attendance, items[k].student_id, date,
                            IF items[k].student_id = NullId THEN items[k].status
                            ELSE LastStatus(items, items[k].student_id))

\* C1 witness: a call failed (500) after at least one upsert of the same call had
\* succeeded, and that upsert would have changed the table
C1_Witness ==
    \E p \in Procs :
        /\ MbDone(p) /\ resp[p].status = 500 /\ loc[p].i >= 1
        /\ Upsert(pre[p].attendance, Items(p)[1].student_id, req[p].body.date,
                  Items(p)[1].status) # pre[p].attendance
        /\ \E k \in 2..Len(Items(p)) :
              AttendanceInsertViolates(students, Items(p)[k].student_id, Items(p)[k].status)

\* C2: the attendance table never holds two records of one (student, date) pair, and a
\* successful submission for a pair that had a record leaves one record, with the
\* submitted status.
C2_OneRecordPerPair ==
    /\ \A r \in BagToSet(attendance) :
          r.student_id # NullId => Copies(attendance, r.student_id, r.date) = 1
    /\ \A p \in Procs : MbDone(p) /\ resp[p].status = 200 =>
          \A k \in 1..Len(Items(p)) :
              LET sid == Items(p)[k].student_id
              IN  sid # NullId /\ Copies(pre[p].attendance, sid, req[p].body.date) = 1 =>
                      /\ Copies(attendance, sid, req[p].body.date) = 1
                      /\ Holds(attendance, sid, req[p].body.date, LastStatus(Items(p), sid))

\* C2 witness: a successful call overwrote the status of a pair that had a record with
\* another status
C2_Witness ==
    \E p \in Procs :
        /\ MbDone(p) /\ resp[p].status = 200
        /\ \E k \in 1..Len(Items(p)) :
              LET sid == Items(p)[k].student_id
                  date == req[p].body.date
              IN  /\ sid # NullId
                  /\ Copies(pre[p].attendance, sid, date) = 1
                  /\ ~Holds(pre[p].attendance, sid, date, LastStatus(Items(p), sid))
                  /\ Copies(attendance, sid, date) = 1
                  /\ Holds(attendance, sid, date, LastStatus(Items(p), sid))

\* C3: markAttendanceBulk is idempotent: when a batch is submitted twice in a row and
\* both calls succeed, the second call leaves the attendance table as the first call
\* left it, with exactly one record, of the submitted status, for every student of the
\* batch.
C3_Idempotent ==
    \A p \in Procs :
        (/\ MbDone(p) /\ loc[p].again /\ resp[p].status = 200
         /\ \E s \in students : s.id \in ListedIds(p)) =>
        /\ attendance = pre[p].attendance
        /\ \A k \in 1..Len(Items(p)) :
              LET sid == Items(p)[k].student_id
              IN  sid # NullId =>
                      /\ Copies(attendance, sid, req[p].body.date) = 1
                      /\ Holds(attendance, sid, req[p].body.date, LastStatus(Items(p), sid))

\* C4: a successful markAttendanceBulk changes only the records keyed (student_id, date)
\* for the listed students: the records of another date or of a student that is not
\* listed are the same rows as before, no key loses a record, and users, students and
\* teachers are unchanged.
C4_Frame ==
    \A p \in Procs : MbDone(p) /\ resp[p].status = 200 =>
        /\ \A r \in BagToSet(pre[p].attendance) \cup BagToSet(attendance) :
              (r.date # req[p].body.date \/ r.student_id \notin ListedIds(p)) =>
                  CopiesIn(r, attendance) = CopiesIn(r, pre[p].attendance)
        /\ \A r \in BagToSet(pre[p].attendance) :
              Copies(attendance, r.student_id, r.date)
                  >= Copies(pre[p].attendance, r.student_id, r.date)
        /\ users = pre[p].users /\ students = pre[p].students /\ teachers = pre[p].teachers

\* C4 witness: a successful call changed the table while a record of another date or of
\* a student that is not listed was in it
C4_Witness ==
    \E p \in Procs :
        /\ MbDone(p) /\ resp[p].status = 200
        /\ attendance # pre[p].attendance
        /\ \E r \in BagToSet(pre[p].attendance) :
              r.date # req[p].body.date \/ r.student_id \notin ListedIds(p)

----------------------------------------------------------------------------
(* Properties of createStudent *)

CsDone(p) == IsCs(p) /\ pc[p] = "done"

\* C5: createStudent adds the User row and the Student row together or not at all:
\* while the call runs nothing it wrote is in the tables, a call answered 201 has
\* added exactly one User of role STUDENT and one Student whose user_id references it,
\* and a call that ended in any other way has added no row; no row is removed.
C5_UserAndStudentTogether ==
    \A p \in Procs : IsCs(p) =>
        LET newUsers == users \ pre[p].users
            newStudents == students \ pre[p].students
        IN  /\ pre[p].users \subseteq users /\ pre[p].students \subseteq students
            /\ IF pc[p] = "done" /\ resp[p].status = 201
               THEN \E u \in newUsers, s \in newStudents :
                       /\ newUsers = {u} /\ newStudents = {s}
                       /\ u.role = "STUDENT" /\ u.email = req[p].body.email
                       /\ s.user_id = u.id
                       /\ s.class_name = req[p].body.class_name
                       /\ s.roll_no = req[p].body.roll_no
               ELSE newUsers = {} /\ newStudents = {}

\* C5 witness: a call failed (500) after its user insert had succeeded (the count query
\* ran), and no row of it is in the tables
C5_Witness ==
    \E p \in Procs :
        /\ CsDone(p) /\ resp[p].status = 500 /\ loc[p].nextId > 0
        /\ users = pre[p].users /\ students = pre[p].students

\* a User of that email, or a Student of that class and roll, existed when the call
\* was made
EmailTaken(p) == \E u \in pre[p].users : u.email = req[p].body.email
RollTaken(p) == \E s \in pre[p].students :
                    s.class_name = req[p].body.class_name /\ s.roll_no = req[p].body.roll_no
AllFields(p) == /\ ~FalsyStr(req[p].body.name) /\ ~FalsyStr(req[p].body.email)
                /\ ~FalsyStr(req[p].body.password) /\ ~FalsyStr(req[p].body.class_name)
                /\ ~FalsyNum(req[p].body.roll_no)

C7_RollUniqueInClass ==
    \A s1, s2 \in students :
        (s1.id # s2.id /\ s1.class_name # "" /\ s1.roll_no # 0) =>
            ~(s1.class_name = s2.class_name /\ s1.roll_no = s2.roll_no)

RECURSIVE NumberOf(_)
\* the number a sequence of decimal digits denotes
NumberOf(digits) ==
    IF digits = <<>> THEN 0
    ELSE 10 * NumberOf(SubSeq(digits, 1, Len(digits) - 1))
         + (CHOOSE d \in 0..9 : DigitChar(d) = digits[Len(digits)])

\* 'STD' followed by n, zero-padded to three digits
IsCodeOf(code, n) ==
    /\ Len(code) >= 6 /\ SubSeq(code, 1, 3) = <<"S", "T", "D">>
    /\ \A k \in 4..Len(code) : \E d \in 0..9 : code[k] = DigitChar(d)
    /\ NumberOf(SubSeq(code, 4, Len(code))) = n
    /\ n < 1000 => Len(code) = 6

RolledBack(p) == /\ \A u \in users : u.id # loc[p].userId
                 /\ \A s \in students : s.user_id # loc[p].userId

C8_Codes ==
    /\ \A s1, s2 \in students :
          (s1 # s2 /\ s1.student_id_code # NoCode) => s1.student_id_code # s2.student_id_code
    /\ \A p \in Procs : CsDone(p) =>
          IF resp[p].status = 201
          THEN \E s \in students : /\ s.user_id = loc[p].userId
                                   /\ s.student_id_code = resp[p].studentIdCode
                                   /\ IsCodeOf(s.student_id_code, loc[p].nextId)
          ELSE RolledBack(p)
    /\ \A p, q \in Procs :
          (/\ p # q /\ CsDone(p) /\ CsDone(q)
           /\ loc[p].studentIdCode # NoCode
           /\ loc[p].studentIdCode = loc[q].studentIdCode) =>
              ~(resp[p].status = 201 /\ resp[q].status = 201)

C8_Assigns ==
    \A p \in Procs :
        (IsCs(p) /\ pc[p] = "count" /\ pc'[p] = "insertStudent") =>
            /\ loc'[p].nextId = Cardinality(students \cup tx[p].students) + 1
            /\ IsCodeOf(loc'[p].studentIdCode, loc'[p].nextId)

\* C8: student codes are unique in every state; createStudent assigns 'STD' followed by
\* (number of Student rows it counts + 1) zero-padded to three digits and commits the
\* row with that code; of two concurrent calls that computed the same code at most one
\* commits, and a call that did not commit has left no User and no Student row.
C8_UniqueCodes == []C8_Codes /\ [][C8_Assigns]_vars

\* C8 witness: two concurrent calls computed the same code, one committed and the other
\* was answered 500 and left no row
C8_Witness ==
    \E p, q \in Procs :
        /\ p # q /\ CsDone(p) /\ CsDone(q)
        /\ loc[p].studentIdCode # NoCode /\ loc[p].studentIdCode = loc[q].studentIdCode
        /\ resp[p].status = 201 /\ resp[q].status = 500 /\ ~loc[q].fault
        /\ RolledBack(q)

----------------------------------------------------------------------------
(* Properties of the teacher endpoints as a whole (Spec)                          *)

\* the request lacks an input its handler requires
MissingInput(p) ==
    CASE IsGs(p) -> req[p].query.date = NoDate
      [] IsMr(p) -> req[p].query.month = 0 \/ req[p].query.year = 0
      [] IsCs(p) -> ~AllFields(p)
      [] IsMb(p) -> req[p].body.date = NoDate
                    \/ req[p].body.records \in {Undefined, NotAnArray}
      [] OTHER -> FALSE

\* C9: a request that lacks a required input (getAttendanceSheet without date, the
\* monthly report without month or year, createStudent without one of its five
\* fields, markAttendanceBulk without date or without a records array) is answered
\* once with status 400, and the handler has acquired no pool connection, issued no
\* query and left every table as it was.
C9_MissingInputRejectedBeforeStorage ==
    \A p \in Procs :
        (pc[p] # "idle" /\ MissingInput(p)) =>
            /\ pc[p] = "done"
            /\ resp[p].sent = 1 /\ resp[p].status = 400
            /\ io[p].acquired = 0 /\ io[p].queries = 0
            /\ Tables = pre[p]

\* C9 witness: a monthly report asked with a month and no year has been answered 400
C9_Witness ==
    \E p \in Procs :
        /\ pc[p] = "done" /\ IsMr(p)
        /\ req[p].query.month # 0 /\ req[p].query.year = 0
        /\ resp[p].status = 400 /\ io[p].acquired = 0

\* C10: every call in which a storage step failed (acquiring the connection, BEGIN, a
\* query, COMMIT or ROLLBACK) has ended with exactly one response, of status 500 and
\* body {error: 'Server error'}, carrying no rows or statistics.
C10_FailureAnswered500 ==
    \A p \in Procs :
        (pc[p] = "done" /\ loc[p].fault) =>
            /\ resp[p].sent = 1 /\ resp[p].status = 500
            /\ resp[p].error = "Server error"
            /\ resp[p].rows = <<>> /\ resp[p].stats = NoStats

----------------------------------------------------------------------------
(* Properties of the gate and the routers (SpecAuth)                              *)

TeacherOps == {"getDashboardStats", "createStudent", "getAttendanceSheet",
               "markAttendanceBulk", "getLowAttendanceList", "getMonthlyAttendanceReport"}
StudentOps == {"getStudentDashboard", "getAttendanceCalendar"}

\* the request was stopped by the gate: answered 401, nothing acquired, nothing
\* queried, the tables as they were
StoppedAtGate(p) ==
    /\ pc[p] = "done" /\ resp[p].sent = 1 /\ resp[p].status = 401
    /\ io[p].acquired = 0 /\ io[p].queries = 0
    /\ Tables = pre[p]

Served(p) == pc[p] # "idle" /\ (pc[p] # "done" \/ io[p].acquired > 0 \/ io[p].queries > 0)

\* C12: every endpoint other than login reaches storage only for a request with a
\* valid credential, the teacher endpoints only for role TEACHER and the student
\* endpoints only for role STUDENT; a User is only ever created by a request that
\* carries a valid credential.
C12_RoleGated ==
    \A p \in Procs :
        (Served(p) /\ ~IsLg(p)) =>
            /\ Verify(headers[p])
            /\ req[p].op \in TeacherOps => headers[p].payload.role = "TEACHER"
            /\ req[p].op \in StudentOps => headers[p].payload.role = "STUDENT"
            /\ users # pre[p].users => Verify(headers[p])

----------------------------------------------------------------------------
(* Properties of the reading endpoints (SpecReport)                               *)

\* the attendance records of a student (one per date, by unique_attendance)
RecordsOf(student_id) == {a \in BagToSet(attendance) : a.student_id = student_id}
PresentOf(student_id) == {a \in RecordsOf(student_id) : a.status = "PRESENT"}

\* the request of process p ended with a list of rows
Listed(p) == pc[p] = "done" /\ resp[p].status = 200
\* the positions of the rows of a student in the list
RowsOfStudent(p, student_id) ==
    {k \in DOMAIN resp[p].rows : resp[p].rows[k].student_id = student_id}

\* C13: the list of getLowAttendanceList holds exactly the students with at least one
\* attendance record whose present / total * 100 over all their records (HOLIDAY
\* records count in total) is strictly below 75: each of them once, nobody else.
C13_ExactlyTheDefaulters ==
    \A p \in Procs : (IsLa(p) /\ Listed(p)) =>
        /\ \A k \in DOMAIN resp[p].rows : \E st \in students : st.id = resp[p].rows[k].student_id
        /\ \A st \in students :
              LET total == Cardinality(RecordsOf(st.id))
                  present == Cardinality(PresentOf(st.id))
              IN  IF total > 0 /\ 100 * present < 75 * total
                  THEN Cardinality(RowsOfStudent(p, st.id)) = 1
                  ELSE RowsOfStudent(p, st.id) = {}

\* C13 witness: a student present on three of four days (75.0) is not listed, while a
\* student with one HOLIDAY record is
C13_Witness ==
    \E p \in Procs :
        /\ IsLa(p) /\ Listed(p)
        /\ Cardinality(RecordsOf(1)) = 4 /\ Cardinality(PresentOf(1)) = 3
        /\ RowsOfStudent(p, 1) = {}
        /\ \E a \in RecordsOf(2) : a.status = "HOLIDAY"
        /\ RowsOfStudent(p, 2) # {}

\* C14: a student without any attendance record is never in the list of
\* getLowAttendanceList, whatever the class and whatever the records of the others.
C14_NoHistoryNeverListed ==
    \A p \in Procs : (IsLa(p) /\ Listed(p)) =>
        \A st \in students : RecordsOf(st.id) = {} => RowsOfStudent(p, st.id) = {}

\* C14 witness: the list names a student while the students of another class and of
\* no class have no record and are not in it
C14_Witness ==
    \E p \in Procs :
        /\ IsLa(p) /\ Listed(p)
        /\ RowsOfStudent(p, 1) # {}
        /\ \E st \in students : st.class_name = "10-A" /\ RecordsOf(st.id) = {}
        /\ \E st \in students : st.class_name = "" /\ RecordsOf(st.id) = {}
        /\ Len(resp[p].rows) = 1

\* the student is among those the class_name parameter asks for
Wanted(st, class_name) == class_name \in {"", "All"} \/ st.class_name = class_name

\* the records of a student dated in a month of a year
RecordsInMonth(student_id, month, year) ==
    {a \in RecordsOf(student_id) : a.date[2] = month /\ a.date[1] = year}

\* C15: the monthly report holds exactly one row for every student (of the class when
\* a class other than 'All' is given, and none for the others); total_days is the
\* number of the student's records dated in that month and year, present_days the
\* number of those that are PRESENT; a student without record in the month has
\* total_days 0 and percentage '0.0'.
C15_MonthlyOneRowPerStudent ==
    \A p \in Procs : (IsMr(p) /\ Listed(p)) =>
        /\ \A k \in DOMAIN resp[p].rows : \E st \in students : st.id = resp[p].rows[k].student_id
        /\ \A st \in students :
              IF Wanted(st, req[p].query.class_name)
              THEN \E k \in DOMAIN resp[p].rows :
                      LET row == resp[p].rows[k]
                          inMonth == RecordsInMonth(st.id, req[p].query.month,
                                                    req[p].query.year)
                      IN  /\ RowsOfStudent(p, st.id) = {k}
                          /\ row.total_days = Cardinality(inMonth)
                          /\ row.present_days =
                                Cardinality({a \in inMonth : a.status = "PRESENT"})
                          /\ inMonth = {} => /\ row.total_days = 0
                                             /\ row.percentage = <<"0", ".", "0">>
              ELSE RowsOfStudent(p, st.id) = {}

\* C15 witness: the report of February 2026 has a row with total_days 0 and '0.0' for
\* the student whose only record is in March
C15_Witness ==
    \E p \in Procs :
        /\ IsMr(p) /\ Listed(p) /\ req[p].query.month = 2 /\ req[p].query.year = 2026
        /\ \E a \in RecordsOf(2) : a.date[2] = 3
        /\ \E k \in DOMAIN resp[p].rows :
              /\ resp[p].rows[k].student_id = 2 /\ resp[p].rows[k].total_days = 0
              /\ resp[p].rows[k].percentage = <<"0", ".", "0">>

\* C16: the attendance sheet holds exactly one row for every student (of the class
\* when a class other than 'All' is given, no student of another class), and the
\* status of a row is the status of the student's record of that date, or null (the
\* empty string) when the student has none.
C16_SheetOneRowPerStudent ==
    \A p \in Procs : (IsGs(p) /\ Listed(p)) =>
        /\ \A k \in DOMAIN resp[p].rows : \E st \in students : st.id = resp[p].rows[k].student_id
        /\ \A st \in students :
              IF Wanted(st, req[p].query.class_name)
              THEN \E k \in DOMAIN resp[p].rows :
                      LET onDate == {a \in RecordsOf(st.id) : a.date = req[p].query.date}
                      IN  /\ RowsOfStudent(p, st.id) = {k}
                          /\ IF onDate = {} THEN resp[p].rows[k].status = ""
                             ELSE \A a \in onDate : resp[p].rows[k].status = a.status
              ELSE RowsOfStudent(p, st.id) = {}

\* C16 witness: the sheet of class 10-A for a date without any record of the class
\* lists both students of 10-A with status null
C16_Witness ==
    \E p \in Procs :
        /\ IsGs(p) /\ Listed(p) /\ req[p].query.class_name = "10-A"
        /\ req[p].query.date = Today
        /\ Len(resp[p].rows) = 2
        /\ \A k \in DOMAIN resp[p].rows : resp[p].rows[k].status = ""

\* class c1 does not sort after class c2
ClassNotAfter(c1, c2) == c1 = c2 \/ (c1 = "10-A" /\ c2 = "10-B")

\* C17: the rows of the attendance sheet and of the monthly report are ordered by
\* class name and, within a class, by roll number ascending (rows without class or
\* roll are not compared).
C17_OrderedByClassAndRoll ==
    \A p \in Procs : ((IsGs(p) \/ IsMr(p)) /\ Listed(p)) =>
        \A j, k \in DOMAIN resp[p].rows : j < k =>
            LET a == resp[p].rows[j]
                b == resp[p].rows[k]
            IN  /\ (a.class_name # "" /\ b.class_name # "") =>
                       ClassNotAfter(a.class_name, b.class_name)
                /\ (a.class_name = b.class_name /\ a.roll_no # 0 /\ b.roll_no # 0) =>
                       a.roll_no <= b.roll_no

\* C17 witness: a sheet of all classes lists roll 1 of 10-A (created last), then roll
\* 2 of 10-A, then the student of 10-B (created first)
C17_Witness ==
    \E p \in Procs :
        /\ IsGs(p) /\ Listed(p) /\ Len(resp[p].rows) = 4
        /\ resp[p].rows[1].student_id = 3 /\ resp[p].rows[2].student_id = 2
        /\ resp[p].rows[3].student_id = 1

\* the records of today with a status
TodayWith(status) == {a \in BagToSet(attendance) : a.date = Today /\ a.status = status}

\* C18: getDashboardStats answers with present_today the number of records of today
\* that are PRESENT and absent_today the number that are ABSENT (HOLIDAY records
\* count in neither); without records of today both are 0; unless a query failed the
\* answer is not an error.
C18_DashboardCountsToday ==
    \A p \in Procs : (IsDs(p) /\ pc[p] = "done" /\ ~loc[p].fault) =>
        /\ resp[p].status = 200
        /\ resp[p].stats.present_today = Cardinality(TodayWith("PRESENT"))
        /\ resp[p].stats.absent_today = Cardinality(TodayWith("ABSENT"))
        /\ (\A a \in BagToSet(attendance) : a.date # Today) =>
               resp[p].stats.present_today = 0 /\ resp[p].stats.absent_today = 0

\* C18 witness: today's only record is a HOLIDAY, there are PRESENT records of other
\* days, and both counts are 0
C18_Witness ==
    \E p \in Procs :
        /\ IsDs(p) /\ Listed(p)
        /\ TodayWith("HOLIDAY") # {}
        /\ \E a \in BagToSet(attendance) : a.date # Today /\ a.status = "PRESENT"
        /\ resp[p].stats.present_today = 0 /\ resp[p].stats.absent_today = 0

\* the decimal string of r tenths: r = 753 is written "75.3"
Decimal1(r) == StringOf(r \div 10) \o <<".", DigitChar(r % 10)>>

\* C19: every percentage of the monthly report and of the low-attendance list is the
\* string of present / total * 100 rounded to one decimal (3 of 4 gives '75.0', 1 of
\* 3 gives '33.3'), and '0.0' when total is 0.
C19_PercentageOneDecimal ==
    \A p \in Procs : ((IsMr(p) \/ IsLa(p)) /\ Listed(p)) =>
        \A k \in DOMAIN resp[p].rows :
            LET row == resp[p].rows[k]
                t == row.total_days
                n == row.present_days
            IN  /\ IF t = 0 THEN row.percentage = <<"0", ".", "0">>
                   ELSE \E r \in 0..1000 :
                           /\ 2 * (r * t - 1000 * n) <= t
                           /\ 2 * (1000 * n - r * t) <= t
                           /\ row.percentage = Decimal1(r)
                /\ (n = 3 /\ t = 4) => row.percentage = <<"7", "5", ".", "0">>
                /\ (n = 1 /\ t = 3) => row.percentage = <<"3", "3", ".", "3">>

\* C19 witness: a monthly report with a student present on 3 of 4 days, '75.0', and a
\* student without record in the month, '0.0'
C19_Witness ==
    \E p \in Procs :
        /\ IsMr(p) /\ Listed(p)
        /\ \E k \in DOMAIN resp[p].rows :
              /\ resp[p].rows[k].present_days = 3 /\ resp[p].rows[k].total_days = 4
              /\ resp[p].rows[k].percentage = <<"7", "5", ".", "0">>
        /\ \E k \in DOMAIN resp[p].rows :
              /\ resp[p].rows[k].total_days = 0
              /\ resp[p].rows[k].percentage = <<"0", ".", "0">>

\* the users whose email and password a login body presents
Matching(body) ==
    {u \in users : u.email = body.email /\ Compare(body.password, u.password_hash)}

\* C20: a finished login has issued a token only if a user with the given email
\* exists and the submitted password matches its hash, and then the token carries
\* that user's id and role; when such a user exists and no query failed, a token is
\* issued with status 200; with both fields given, an unknown email and a wrong
\* password are answered with the same 400 'Invalid credentials' and no token.
C20_TokenIffCredentials ==
    \A p \in Procs : (IsLg(p) /\ pc[p] = "done") =>
        LET body == req[p].body IN
        /\ resp[p].token # NoToken =>
              /\ resp[p].status = 200
              /\ \E u \in Matching(body) :
                    /\ resp[p].token.kind = "jwt"
                    /\ resp[p].token.payload.id = u.id
                    /\ resp[p].token.payload.role = u.role
        /\ (Matching(body) # {} /\ ~loc[p].fault) => resp[p].token # NoToken
        /\ (Matching(body) = {} /\ ~loc[p].fault
              /\ ~FalsyStr(body.email) /\ ~FalsyStr(body.password)) =>
              resp[p] = SendError(NoResp, 400, "Invalid credentials")

\* C20 witness: a login with a student's email and password has been answered 200
\* with a token of the student's id and role
C20_Witness ==
    \E p \in Procs :
        /\ IsLg(p) /\ pc[p] = "done" /\ resp[p].status = 200
        /\ \E u \in Matching(req[p].body) :
              /\ u.role = "STUDENT"
              /\ resp[p].token = Sign(resp[p].user)
              /\ resp[p].user.id = u.id /\ resp[p].user.role = u.role

\* C21: createStudent and markAttendanceBulk acquire at most one pool connection and
\* never release more than they acquired; a finished call (commit, 400 after a
\* detected conflict, failure of any query) has released what it acquired; when no
\* request is in flight no connection is checked out, and the pool of PoolMax is
\* never exceeded.
C21_ConnectionReleasedOnce ==
    /\ checkedOut <= PoolMax
    /\ (\A p \in Procs : ~InFlight(p)) => checkedOut = 0
    /\ \A p \in Procs : (IsCs(p) \/ IsMb(p)) =>
          /\ io[p].released <= io[p].acquired /\ io[p].acquired <= 1
          /\ pc[p] = "done" => io[p].released = io[p].acquired

\* C21 witness: a createStudent that found a conflict has answered 400 and released
\* the connection it acquired
C21_Witness ==
    \E p \in Procs :
        /\ IsCs(p) /\ pc[p] = "done" /\ resp[p].status = 400
        /\ resp[p].error \in {"User already exists", "Roll number already exists in class"}
        /\ io[p].acquired = 1 /\ io[p].released = 1 /\ checkedOut = 0

\* the students of a user, and the attendance rows of a student
ProfilesOf(userId) == {st \in students : st.user_id = userId}
OwnAttendance(student_id) ==
    [a \in {a \in BagToSet(attendance) : a.student_id = student_id} |-> attendance[a]]

\* C22: the answers of the student dashboard and of the student calendar for the
\* authenticated identity U are determined by the profile and the attendance rows of
\* the student whose user_id is U alone (the response is what the same computation
\* gives on a table holding only that student's rows, so the other students' records
\* cannot change it), whatever the user_id query parameter; an identity without
\* student profile is answered 404.
C22_OnlyOwnRows ==
    \A p \in Procs :
        ((IsSd(p) \/ IsSc(p)) /\ pc[p] = "done" /\ req[p].user # NoUser /\ ~loc[p].fault) =>
            IF ProfilesOf(req[p].user.id) = {}
            THEN resp[p].status = 404 /\ resp[p].rows = <<>>
                 /\ resp[p].dashboard = NoDashboard
            ELSE \E st \in ProfilesOf(req[p].user.id) :
                    /\ resp[p].status = 200
                    /\ IsSd(p) => resp[p].dashboard = Dashboard(st, OwnAttendance(st.id))
                    /\ IsSc(p) => resp[p].rows \in CalendarRows(OwnAttendance(st.id), st.id)

\* C22 witness: the first student asked for the dashboard with the user_id of the
\* second, whose only record is PRESENT, and is shown the own single ABSENT record
C22_Witness ==
    \E p \in Procs :
        /\ IsSd(p) /\ pc[p] = "done" /\ resp[p].status = 200
        /\ req[p].user.id = 11 /\ req[p].query.user_id = 12
        /\ \E a \in RecordsOf(2) : a.status = "PRESENT"
        /\ resp[p].dashboard.name = "Ann"
        /\ resp[p].dashboard.total_present = 0 /\ resp[p].dashboard.total_days = 1

\* the session kept by the client is consistent
SessionConsistent ==
    /\ authUser # NoUser => localStorage.token # NoToken /\ localStorage.user # <<>>
    /\ loggedOut => authUser = NoUser /\ localStorage = NoStorage
    /\ wire.loggedOut => wire.authorization = NoToken

\* C23: in every state reached by page loads, logins and logouts, a user in
\* AuthContext implies that token and user are both stored; from logout() until a
\* login succeeds the user is null, both entries are absent and every request leaves
\* without Authorization header; a failed login changes neither the user nor
\* localStorage.
C23_SessionConsistent ==
    /\ []SessionConsistent
    /\ [][\A c \in LoginCalls : loginRejected(c) => UNCHANGED <<authUser, localStorage>>]_vars

\* C23 witness: after a logout, a login request has left without Authorization
\* header and is awaiting its answer
C23_Witness ==
    /\ loggedOut /\ wire.api = "login" /\ wire.loggedOut /\ wire.authorization = NoToken
    /\ authUser = NoUser /\ localStorage = NoStorage
    /\ \E c \in inflight : c.api = "login"

\* the call of p has committed its batch; the rows of the batch
Committed(p) == IsMb(p) /\ pc[p] = "done" /\ resp[p].status = 200
BatchOf(p) == IF Committed(p) THEN Posted(req[p].body.date, req[p].body.records.items)
              ELSE <<>>

\* C24: whatever the interleaving of the statements of two markAttendanceBulk calls,
\* each call commits all of its entries or none, and the attendance table is the
\* result of applying the batches committed so far one after the other in some
\* order.
C24_SerialOutcome ==
    \E first \in Procs : \E second \in Procs \ {first} :
        attendance = UpsertAll(UpsertAll(EmptyBag, BatchOf(first)), BatchOf(second))

\* C24 witness: two calls that both started on the empty table and named the two
\* students of the same date in opposite orders have both committed
C24_Witness ==
    /\ Committed(1) /\ Committed(2)
    /\ pre[1].attendance = EmptyBag /\ pre[2].attendance = EmptyBag
    /\ req[1].body.date = req[2].body.date
    /\ Len(BatchOf(1)) = 2 /\ Len(BatchOf(2)) = 2
    /\ BatchOf(1)[1].student_id = BatchOf(2)[2].student_id
    /\ BatchOf(1)[1].student_id # BatchOf(1)[2].student_id

\* the rows a finished call added to a table
Added(now, before) == now \ before

\* C25: a register call that ends with an error response has added no User, Student
\* or Teacher row; one that succeeds has added exactly one User and exactly one
\* profile row of the matching role that references it.
C25_RegisterAllOrNothing ==
    \A p \in Procs : (IsRg(p) /\ pc[p] = "done" /\ resp[p].sent = 1) =>
        LET newUsers == Added(users, pre[p].users)
            newStudents == Added(students, pre[p].students)
            newTeachers == Added(teachers, pre[p].teachers)
        IN  IF resp[p].status = 201
            THEN /\ Cardinality(newUsers) = 1
                 /\ Cardinality(newStudents \cup newTeachers) = 1
                 /\ \A u \in newUsers :
                       /\ u.role = "STUDENT" => \A st \in newStudents : st.user_id = u.id
                       /\ u.role = "STUDENT" => newTeachers = {}
                       /\ u.role = "TEACHER" => \A t \in newTeachers : t.user_id = u.id
                       /\ u.role = "TEACHER" => newStudents = {}
            ELSE newUsers = {} /\ newStudents = {} /\ newTeachers = {}

\* C26: every answer of getDashboardStats has present_today + absent_today at most
\* total_students, and every record of today it counts refers to an existing
\* student.
C26_CountsWithinStudents ==
    \A p \in Procs : (IsDs(p) /\ pc[p] = "done" /\ resp[p].status = 200) =>
        /\ resp[p].stats.present_today + resp[p].stats.absent_today
              <= resp[p].stats.total_students
        /\ \A a \in TodayWith("PRESENT") \cup TodayWith("ABSENT") :
              \E st \in students : st.id = a.student_id

\* C27: the records a Save posts for the selected date carry only statuses fetched
\* for that date or set by the teacher while that date was selected.
C27_SavedStatusesOfSelectedDate ==
    wire.api = "bulk" =>
        \A k \in DOMAIN wire.records : wire.records[k].origin = wire.date

\* some student is named by more than one entry of the batch
Repeats(items) ==
    \E j, k \in DOMAIN items :
        j < k /\ items[j].student_id = items[k].student_id /\ items[j].student_id # NullId

\* C28: a markAttendanceBulk call whose batch names a student more than once ends
\* with 200 unless a statement fails, and then the table holds exactly one record of
\* each student of the batch for the date, with the status of the student's last
\* entry; the table is the one that submitting the entries one by one in order
\* leaves.
C28_LastEntryWins ==
    \A p \in Procs :
        (MbDone(p) /\ req[p].body.records.kind = "array"
            /\ Repeats(req[p].body.records.items)) =>
            LET items == req[p].body.records.items
                date == req[p].body.date
            IN  /\ (~loc[p].fault /\ \A k \in DOMAIN items :
                        ~AttendanceInsertViolates(pre[p].students, items[k].student_id,
                                                  items[k].status))
                       => resp[p].status = 200
                /\ resp[p].status = 200 =>
                      /\ \A k \in DOMAIN items : items[k].student_id # NullId =>
                            /\ Copies(attendance, items[k].student_id, date) = 1
                            /\ \A a \in RecordsOf(items[k].student_id) : a.date = date =>
                                  a.status = LastStatus(items, items[k].student_id)
                      /\ attendance = UpsertAll(pre[p].attendance, Posted(date, items))

\* C28 witness: a batch marking student 1 PRESENT and then ABSENT has been committed
\* on a table without record of the student, and one ABSENT record is stored
C28_Witness ==
    \E p \in Procs :
        /\ MbDone(p) /\ resp[p].status = 200
        /\ Len(req[p].body.records.items) = 2
        /\ req[p].body.records.items[1] = [student_id |-> 1, status |-> "PRESENT"]
        /\ req[p].body.records.items[2] = [student_id |-> 1, status |-> "ABSENT"]
        /\ pre[p].attendance = EmptyBag
        /\ attendance = SetToBag({[student_id |-> 1, date |-> req[p].body.date,
                                   status |-> "ABSENT"]})

\* reading a percentage back: the tenths a percentage such as "66.7" (or the number
\* written "0") stands for
TenthsOf(str) ==
    IF \E k \in DOMAIN str : str[k] = "."
    THEN 10 * NumberOf(SubSeq(str, 1, Len(str) - 2)) + NumberOf(<<str[Len(str)]>>)
    ELSE 10 * NumberOf(str)

\* C29: for every student with a user account and at least one attendance record,
\* getLowAttendanceList returns the student if and only if the percentage that
\* getStudentDashboard returns for that student is below 75.
C29_ListAgreesWithDashboard ==
    \A p, q \in Procs :
        (IsLa(p) /\ Listed(p) /\ IsSd(q) /\ Listed(q)) =>
            \A st \in ProfilesOf(req[q].user.id) :
                ((\E u \in users : u.id = st.user_id) /\ RecordsOf(st.id) # {}) =>
                    (RowsOfStudent(p, st.id) # {}
                        <=> TenthsOf(resp[q].dashboard.percentage) < 10 * Threshold)

\* C30: every entry of the defaulter list has 0 <= present_days <= total_days and
\* total_days >= 1, and its formatted percentage reads strictly less than 75.0.
C30_ListedReadsBelowThreshold ==
    \A p \in Procs : (IsLa(p) /\ Listed(p)) =>
        \A k \in DOMAIN resp[p].rows :
            LET row == resp[p].rows[k]
            IN  /\ 0 <= row.present_days /\ row.present_days <= row.total_days
                /\ row.total_days >= 1
                /\ TenthsOf(row.percentage) < 10 * Threshold

====
